---- MODULE Spec2Model ----
(***************************************************************************)
(* State-machine model of the Skytunes front end: the SkytunesStore        *)
(* (change detection, notification, playback queue, favourite matching),   *)
(* the URLController (hash <-> state synchronisation with its two guard    *)
(* flags) and the parts of SkytunesApp / AudioPlayer that drive them.      *)
(*                                                                         *)
(* JavaScript reference identity (===) is modelled by object ids: every    *)
(* array carries a `ref`, every track and every `previous` object an       *)
(* `oid`.  A new object gets the smallest id no live value uses, so two    *)
(* records are equal in the model exactly when they are the same object.   *)
(***************************************************************************)
EXTENDS Integers, Sequences, FiniteSets, Bags, TLC

VARIABLES
    state,               \* SkytunesStore.state
    previousState,       \* SkytunesStore.previousState (last-notified snapshot)
    listeners,           \* SkytunesStore.listeners
    log,                 \* listener invocations made by the last operation
    subscriptions,       \* every subscribe call so far, and the ones cancelled since
    hash,                \* window.location.hash
    isUpdatingFromURL,   \* URLController guard flag
    isUpdatingFromState, \* URLController guard flag
    timers,              \* zero-delay timer callbacks not yet run (FIFO)
    hashEvents,          \* hashchange events queued and not yet delivered (FIFO)
    pending,             \* store operations suspended at an await
    serverLists,         \* the playlists held by the remote API
    searchInput,         \* the value of the .search-input element
    player,              \* AudioPlayer fields, the audio element, transitions in flight
    cache,               \* getDashOnce's Map: URL -> the promise cached for it
    last                 \* the operation performed by the last step

vars == <<state, previousState, listeners, log, subscriptions, hash,
          isUpdatingFromURL, isUpdatingFromState, timers, hashEvents,
          pending, serverLists, searchInput, player, cache, last>>

-----------------------------------------------------------------------------
(* Bounds of the model *)

MaxRef == 40          \* size of the object-id pool
MaxQueue == 5         \* longest songList explored
MaxPending == 2       \* most store operations in flight at once
MaxTasks == 3
MaxInputs == 2         \* most timer callbacks / hashchange events queued

-----------------------------------------------------------------------------
(* JavaScript values: undefined, numbers, strings (sequences of characters) *)

JSUndef == [t |-> "undefined", n |-> 0, s |-> <<>>]
JSNaN == [t |-> "NaN", n |-> 0, s |-> <<>>]
JSNum(n) == [t |-> "number", n |-> n, s |-> <<>>]
JSStr(s) == [t |-> "string", n |-> 0, s |-> s]

Truthy(v) ==
    CASE v.t = "undefined" -> FALSE
      [] v.t = "NaN" -> FALSE
      [] v.t = "number" -> v.n # 0
      [] OTHER -> v.s # <<>>

DigitChars == <<"0", "1", "2", "3", "4", "5", "6", "7", "8", "9">>

RECURSIVE NatToString(_)
NatToString(n) ==
    IF n < 10 THEN <<DigitChars[n + 1]>>
    ELSE NatToString(n \div 10) \o <<DigitChars[(n % 10) + 1]>>

\* Number.prototype.toString / String(x) as used by Array.join
ToStringJS(v) ==
    CASE v.t = "undefined" -> <<>>
      [] v.t = "NaN" -> <<"N", "a", "N">>
      [] v.t = "number" ->
            IF v.n < 0 THEN <<"-">> \o NatToString(-v.n) ELSE NatToString(v.n)
      [] OTHER -> v.s

IsDigit(c) == \E i \in 1..10 : DigitChars[i] = c
DigitValue(c) == (CHOOSE i \in 1..10 : DigitChars[i] = c) - 1

RECURSIVE LeadingDigits(_, _)
LeadingDigits(s, acc) ==
    IF s = <<>> \/ ~IsDigit(Head(s)) THEN acc
    ELSE LeadingDigits(Tail(s), acc * 10 + DigitValue(Head(s)))

\* parseInt(s): optional sign, then the leading decimal digits; NaN if none
ParseInt(s) ==
    LET neg == s # <<>> /\ Head(s) = "-"
        body == IF s # <<>> /\ Head(s) \in {"-", "+"} THEN Tail(s) ELSE s
    IN IF body = <<>> \/ ~IsDigit(Head(body)) THEN JSNaN
       ELSE JSNum((IF neg THEN -1 ELSE 1) * LeadingDigits(body, 0))

\* String.prototype.split(sep) on a sequence of characters
RECURSIVE SplitAcc(_, _, _)
SplitAcc(s, sep, cur) ==
    IF s = <<>> THEN <<cur>>
    ELSE IF Head(s) = sep THEN <<cur>> \o SplitAcc(Tail(s), sep, <<>>)
    ELSE SplitAcc(Tail(s), sep, Append(cur, Head(s)))

Split(s, sep) == SplitAcc(s, sep, <<>>)

\* Array.prototype.join(sep)
RECURSIVE Join(_, _)
Join(parts, sep) ==
    IF parts = <<>> THEN <<>>
    ELSE IF Len(parts) = 1 THEN parts[1]
    ELSE parts[1] \o <<sep>> \o Join(Tail(parts), sep)

Range(f) == {f[i] : i \in DOMAIN f}

\* Op applied to the value of e, with e evaluated once
Bind(e, Op(_)) == CHOOSE y \in {Op(x) : x \in {e}} : TRUE

\* Array.prototype.indexOf, 0-based, -1 when absent
IndexOf(seq, x) ==
    IF \E i \in 1..Len(seq) : seq[i] = x
    THEN (CHOOSE i \in 1..Len(seq) :
             seq[i] = x /\ \A j \in 1..(i - 1) : seq[j] # x) - 1
    ELSE -1

\* Array.prototype.filter
RECURSIVE FilterOut(_, _)
FilterOut(seq, x) ==
    IF seq = <<>> THEN <<>>
    ELSE IF Head(seq) = x THEN FilterOut(Tail(seq), x)
    ELSE <<Head(seq)>> \o FilterOut(Tail(seq), x)

-----------------------------------------------------------------------------
(* Domain values *)

\* ITrackItem: oid is the object's identity, 0 for "no track"
Track(oid, id, key, fav, queued) ==
    [oid |-> oid, queued |-> queued, ID |-> id, FileKey |-> key, favorite |-> fav,
     artistFk |-> 0]

UndefTrack == Track(0, 0, "undefined", FALSE, FALSE)
NullTrack == Track(0, 0, "null", FALSE, FALSE)

\* An array object; ref 0 stands for "not an array" (undefined)
Arr(ref, items) == [ref |-> ref, items |-> items]
UndefArr == Arr(0, <<>>)

\* PreviousView object
Previous(oid, view, id) == [oid |-> oid, id |-> id, view |-> view]
UndefPrevious == Previous(0, "undefined", JSUndef)

\* AudioPlayer after its constructor: no song seen, nothing loaded, no
\* loadAndPlaySong call in flight
InitialPlayer ==
    [currentSongId |-> "null", src |-> "", loaded |-> FALSE, isPlaying |-> FALSE,
     flights |-> <<>>]

\* What the search endpoint answers for one type and term
Answer(type, term) == <<type, term>>

\* ISearchResult: the object searchByParam builds from the three answers
SearchResults(oid, term) ==
    [oid |-> oid, music |-> Answer("music", term), artist |-> Answer("artist", term),
     album |-> Answer("album", term)]
UndefSearchResults == [oid |-> 0, music |-> <<>>, artist |-> <<>>, album |-> <<>>]

\* The name a load passes to loadBanner as titleName (row.Name, the genre):
\* the name of the entity `detailId` of view `view`
NameOf(view, detailId) == [view |-> view, detailId |-> detailId]
NoName == NameOf("", JSUndef)

\* BannerProps: the object loadBanner builds (artistItem, labelName,
\* titleName); the track count is display text only.  `undefined` until the
\* first banner, "null" after setState({banner: null})
Banner(oid, artistItem, labelName, titleName) ==
    [oid |-> oid, artistItem |-> artistItem, labelName |-> labelName,
     titleName |-> titleName]
UndefBanner == Banner(0, 0, "undefined", NoName)
NullBanner == Banner(0, 0, "null", NoName)

\* Arrays of objects (each item has an identity) and arrays of strings
ObjectArrayKeys == {"displayedTracks", "songList", "playlistLib", "displayedGrid"}
PlainArrayKeys == {"relatedPlaylists"}
ObjectKeys == {"currentSong", "menuTrack", "previous", "searchResults", "banner"}

\* Objects created during a step take ids above the pool; the step's commit
\* renames every live id back into 1..MaxRef
NewRef(w, i) == MaxRef + w.next + i
Allocated(w, n) == [w EXCEPT !.next = @ + n]

-----------------------------------------------------------------------------
(* SkytunesStore: constructor *)

InitialState ==
    [view |-> "dash",
     currentSongId |-> "undefined",
     type |-> "dash",
     detailId |-> JSUndef,
     page |-> JSNum(1),
     count |-> 1,
     displayedTracks |-> Arr(1, <<>>),
     songList |-> Arr(2, <<>>),
     relatedPlaylists |-> Arr(3, <<>>),
     displayedGrid |-> Arr(4, <<>>),
     playlistLib |-> UndefArr,
     currentSong |-> UndefTrack,
     menuTrack |-> UndefTrack,
     listOpen |-> "undefined",
     songListOpen |-> "undefined",
     searchResults |-> UndefSearchResults,
     searchParam |-> "undefined",
     previous |-> UndefPrevious,
     banner |-> UndefBanner]

\* previousState = {}: every key reads as undefined
EmptySnapshot ==
    [view |-> "undefined",
     currentSongId |-> "undefined",
     type |-> "undefined",
     detailId |-> JSUndef,
     page |-> JSUndef,
     count |-> -1,
     displayedTracks |-> UndefArr,
     songList |-> UndefArr,
     relatedPlaylists |-> UndefArr,
     displayedGrid |-> UndefArr,
     playlistLib |-> UndefArr,
     currentSong |-> UndefTrack,
     menuTrack |-> UndefTrack,
     listOpen |-> "undefined",
     songListOpen |-> "undefined",
     searchResults |-> UndefSearchResults,
     searchParam |-> "undefined",
     previous |-> UndefPrevious,
     banner |-> UndefBanner]

ArrayKeys == ObjectArrayKeys \cup PlainArrayKeys

-----------------------------------------------------------------------------
(* The world a synchronous call chain reads and writes *)

World ==
    [state |-> state, previousState |-> previousState, listeners |-> listeners,
     log |-> log, hash |-> hash, timers |-> timers,
     hashEvents |-> hashEvents, pending |-> pending,
     next |-> 0, fromURL |-> isUpdatingFromURL, fromState |-> isUpdatingFromState,
     urlCalls |-> 0, dispatched |-> <<>>, accepts |-> 0]

\* A new operation starts with an empty invocation log
Begin == [World EXCEPT !.log = <<>>]

(* Object ids only ever answer "same object?".  Each step therefore ends by
   renaming the live ids to 1, 2, ... in the order a fixed walk over the
   state meets them, so that two worlds that differ only in the names of
   their objects are one state. *)
ItemOids(items) == [i \in DOMAIN items |-> items[i].oid]

RefWalk(st) ==
    <<st.previous.oid, st.displayedTracks.ref>> \o ItemOids(st.displayedTracks.items)
        \o <<st.songList.ref>> \o ItemOids(st.songList.items)
        \o <<st.relatedPlaylists.ref, st.displayedGrid.ref>>
        \o ItemOids(st.displayedGrid.items)
        \o <<st.playlistLib.ref>> \o ItemOids(st.playlistLib.items)
        \o <<st.currentSong.oid, st.menuTrack.oid, st.searchResults.oid, st.banner.oid>>

RECURSIVE WalkLog(_)
WalkLog(lg) == IF lg = <<>> THEN <<>> ELSE RefWalk(Head(lg).st) \o WalkLog(Tail(lg))

\* Rank of each id of `walk` by the position of its first occurrence
RECURSIVE Ranks(_, _, _)
Ranks(walk, i, acc) ==
    IF i > Len(walk) THEN acc
    ELSE IF walk[i] = 0 \/ walk[i] \in DOMAIN acc THEN Ranks(walk, i + 1, acc)
    ELSE Ranks(walk, i + 1, acc @@ (walk[i] :> Cardinality(DOMAIN acc) + 1))

RankByFirstOccurrence(walk0) ==
    Bind(walk0, LAMBDA walk : Ranks(walk, 1, << >>))

MergeRanks(inState, others) ==
    LET n == Cardinality(DOMAIN inState)
        extra == {r \in DOMAIN others : r \notin DOMAIN inState}
    IN [r \in DOMAIN inState \cup DOMAIN others \cup {0} |->
           IF r = 0 THEN 0
           ELSE IF r \in DOMAIN inState THEN inState[r]
           ELSE n + Cardinality({x \in extra : others[x] <= others[r]})]

\* Ids of the state first; ids only the snapshot or the log still hold after them
Renaming(w) ==
    Bind(RankByFirstOccurrence(RefWalk(w.state)), LAMBDA inState :
        IF w.previousState = w.state /\ \A i \in DOMAIN w.log : w.log[i].st = w.state
        THEN [r \in DOMAIN inState \cup {0} |-> IF r = 0 THEN 0 ELSE inState[r]]
        ELSE Bind(RankByFirstOccurrence(RefWalk(w.previousState) \o WalkLog(w.log)),
                  LAMBDA others : MergeRanks(inState, others)))

RenameVal(k, v, f) ==
    IF k \in ObjectArrayKeys
    THEN Arr(f[v.ref], [i \in DOMAIN v.items |-> [v.items[i] EXCEPT !.oid = f[@]]])
    ELSE IF k \in PlainArrayKeys THEN Arr(f[v.ref], v.items)
    ELSE IF k \in ObjectKeys THEN [v EXCEPT !.oid = f[@]]
    ELSE v

RenameState(st, f) == [k \in DOMAIN st |-> RenameVal(k, st[k], f)]

Commit(w) ==
    /\ IF w.next = 0
       THEN state' = w.state /\ previousState' = w.previousState /\ log' = w.log
       ELSE \E f \in {Renaming(w)} :
               /\ \A r \in DOMAIN f : f[r] <= MaxRef
               /\ state' = RenameState(w.state, f)
               /\ previousState' = RenameState(w.previousState, f)
               /\ log' = [i \in DOMAIN w.log |->
                             [st |-> RenameState(w.log[i].st, f), l |-> w.log[i].l]]
    /\ listeners' = w.listeners
       /\ hash' = w.hash
       /\ isUpdatingFromURL' = w.fromURL
       /\ isUpdatingFromState' = w.fromState
       /\ timers' = w.timers
       /\ hashEvents' = w.hashEvents
       /\ pending' = w.pending
    /\ Len(w.timers) <= MaxTasks
       /\ Len(w.hashEvents) <= MaxTasks
       /\ BagCardinality(w.pending) <= MaxPending

-----------------------------------------------------------------------------
(* URLController: parseURL, updateURL *)

ValidViews ==
    {"dash", "library", "artists", "albums", "genres", "playlists",
     "album", "artist", "genre", "playlist", "search"}

\* The first path segment as a view name: a segment is a view name when it
\* is exactly one view token
ViewOfPart(part) ==
    IF Len(part) = 1 /\ part[1] \in ValidViews THEN part[1] ELSE "dash"

\* parseURL(): hash.substring(1), split on "/", view checked against the
\* allow-list, detailId verbatim, page through parseInt
ParseURL(h) ==
    LET body == IF h = <<>> THEN <<>> ELSE Tail(h)
        parts == Split(body, "/")
    IN IF body = <<>> THEN [view |-> "dash", detailId |-> JSUndef, page |-> JSUndef]
       ELSE [view |-> ViewOfPart(parts[1]),
             detailId |-> IF Len(parts) >= 2 THEN JSStr(parts[2]) ELSE JSUndef,
             page |-> IF Len(parts) >= 3 /\ parts[3] # <<>>
                      THEN ParseInt(parts[3]) ELSE JSUndef]

\* The hash updateURL builds: #view, then detailId when truthy, then page
\* when truthy and greater than 1, joined by "/"
HashOfState(st) ==
    Join(<<<<"#", st.view>>>>
         \o (IF Truthy(st.detailId) THEN <<ToStringJS(st.detailId)>> ELSE <<>>)
         \o (IF Truthy(st.page) /\ st.page.t = "number" /\ st.page.n > 1
             THEN <<ToStringJS(st.page)>> ELSE <<>>),
         "/")

\* A variant whose every call queues a hashchange event, the hash changed or not
UpdateURL_AlwaysQueues(w, st) ==
    IF w.fromURL THEN [w EXCEPT !.urlCalls = @ + 1]
    ELSE LET newURL == HashOfState(st)
         IN [w EXCEPT !.urlCalls = @ + 1,
                      !.fromState = TRUE,
                      !.hash = newURL,
                      !.hashEvents = Append(@, [hash |-> newURL, origin |-> "state"]),
                      !.timers = Append(@, "resetState")]

\* A variant without the isUpdatingFromURL guard
UpdateURL_Unguarded(w, st) ==
    LET newURL == HashOfState(st)
        write == w.hash # newURL
    IN [w EXCEPT !.urlCalls = @ + 1,
                 !.fromState = TRUE,
                 !.hash = newURL,
                 !.hashEvents = IF write
                              THEN Append(@, [hash |-> newURL, origin |-> "state"])
                              ELSE @,
                 !.timers = Append(@, "resetState")]

\* updateURL(state): skipped while isUpdatingFromURL; otherwise raise
\* isUpdatingFromState, write the hash if it differs (which queues a
\* hashchange event) and schedule the zero-delay reset
UpdateURL(w, st) ==
    IF w.fromURL THEN [w EXCEPT !.urlCalls = @ + 1]
    ELSE LET newURL == HashOfState(st)
             write == w.hash # newURL
         IN [w EXCEPT !.urlCalls = @ + 1,
                      !.fromState = TRUE,
                      !.hash = newURL,
                      !.hashEvents = IF write
                                   THEN Append(@, [hash |-> newURL, origin |-> "state"])
                                   ELSE @,
                      !.timers = Append(@, "resetState")]

-----------------------------------------------------------------------------
(* SkytunesStore: subscribe, notify, setState *)

\* The update a subscriber that derives `type` from the view passes to
\* setState from inside its call
DerivedType(st) == [type |-> IF st.view \in {"album", "artist", "genre", "playlist"}
                            THEN "detail" ELSE "dash"]

RECURSIVE SetState(_, _)

\* One listener call: the App's subscriber renders and calls updateURL; the
\* other subscribers of the application do not write to the store or the
\* URL synchronously.  "R" is a subscriber that calls setState from inside
\* its call (no subscriber of the application does)
InvokeListener(w, l) ==
    Bind([w EXCEPT !.log = Append(@, [st |-> w.state, l |-> l])], LAMBDA w1 :
        IF l = "app" THEN UpdateURL(w1, w1.state)
        ELSE IF l = "R" THEN SetState(w1, DerivedType(w1.state))
        ELSE w1)

\* A variant that walks the listeners last to first
RECURSIVE ForEachListener_Reversed(_, _)
ForEachListener_Reversed(w, ls) ==
    IF ls = <<>> THEN w
    ELSE Bind(InvokeListener(w, ls[Len(ls)]), LAMBDA w1 :
             ForEachListener_Reversed(w1, SubSeq(ls, 1, Len(ls) - 1)))

\* listeners.forEach(listener => listener(this.state))
RECURSIVE ForEachListener(_, _)
ForEachListener(w, ls) ==
    IF ls = <<>> THEN w
    ELSE Bind(InvokeListener(w, Head(ls)), LAMBDA w1 : ForEachListener(w1, Tail(ls)))

\* hasStateChanged(): arrays by length and pairwise element identity, every
\* other key by identity, against the last-notified snapshot
HasStateChanged(st, prev) ==
    \E k \in DOMAIN st :
        IF k \in ArrayKeys /\ st[k].ref # 0 /\ prev[k].ref # 0
        THEN \/ Len(st[k].items) # Len(prev[k].items)
             \/ \E i \in 1..Len(st[k].items) : st[k].items[i] # prev[k].items[i]
        ELSE st[k] # prev[k]

\* notify()
Notify(w) ==
    IF HasStateChanged(w.state, w.previousState)
    THEN Bind(ForEachListener(w, w.listeners), LAMBDA w1 :
             [w1 EXCEPT !.previousState = w1.state])
    ELSE w

HasChanges_Always(st, updates) == TRUE

\* setState's change test: some key of the update is not identical (!==)
\* to the state's value
HasChanges(st, updates) == \E k \in DOMAIN updates : st[k] # updates[k]

MergeState_PreviousAfterMerge(old, updates, oid) ==
    LET merged == [k \in DOMAIN old |->
                      IF k \in DOMAIN updates THEN updates[k] ELSE old[k]]
    IN [merged EXCEPT !.previous = Previous(oid, merged.view, merged.detailId)]

\* {...state, ...updates, previous: {view: state.view, id: state.detailId}}
MergeState(old, updates, oid) ==
    [k \in DOMAIN old |->
        IF k = "previous" THEN Previous(oid, old.view, old.detailId)
        ELSE IF k \in DOMAIN updates THEN updates[k]
        ELSE old[k]]

\* setState(updates)
SetState(w, updates) ==
    IF HasChanges(w.state, updates)
    THEN Bind([w EXCEPT !.state = MergeState(w.state, updates, NewRef(w, 1)),
                        !.next = @ + 1, !.accepts = @ + 1],
              LAMBDA w1 : Notify(w1))
    ELSE w

\* subscribe(listener)
Subscribe(w, l) == [w EXCEPT !.listeners = Append(@, l)]

\* the function subscribe returns: listeners.filter(x => x !== listener)
Unsubscribe(w, l) == [w EXCEPT !.listeners = FilterOut(@, l)]


-----------------------------------------------------------------------------
(* The store on its own: subscribe / unsubscribe / setState with arbitrary  *)
(* partial updates                                                          *)

\* getDashOnce's Map before any call, and once initializeApp's loadDash has
\* called getDashboard (its only caller in the application)
DashURL == "/dash"
NoPromises == << >>
Promise(id, settled) == [settled |-> settled, promise |-> id]
DashRequested == (DashURL :> Promise(1, "pending"))

InitWith(lists) ==
    /\ state = InitialState
    /\ previousState = EmptySnapshot
    /\ listeners = <<>>
    /\ log = <<>>
    /\ subscriptions = [order |-> <<>>, cancelled |-> {}]
    /\ hash = <<>>
    /\ isUpdatingFromURL = FALSE
    /\ isUpdatingFromState = FALSE
    /\ timers = <<>>
    /\ hashEvents = <<>>
    /\ pending = EmptyBag
    /\ serverLists = lists
    /\ searchInput = ""
    /\ player = InitialPlayer
    /\ cache = NoPromises
    /\ last = [op |-> "init"]

Init == InitWith(<<>>)

\* Plain subscribers: every subscribe call of the program passes a new
\* closure, so a listener is registered at most once
GenericListeners == {"L1", "L2"}

GenericKeys == {"view", "detailId", "songList"}

\* Values a caller may pass for a key: the state's own value (identical),
\* other values, and for an array a new array with the same elements
ViewValues == <<"dash", "album">>
DetailIdValues == <<JSUndef, JSStr(<<"5">>)>>
SongListValues(st, fresh) ==
    <<st.songList,
      Arr(fresh[1], st.songList.items),
      Arr(fresh[1], <<Track(fresh[2], 1, "a", FALSE, FALSE)>>)>>

\* The update object: choice 0 leaves the key out
UpdateOf(st, fresh, iv, idt, isl) ==
    [k \in {x \in GenericKeys :
               \/ x = "view" /\ iv > 0
               \/ x = "detailId" /\ idt > 0
               \/ x = "songList" /\ isl > 0} |->
        CASE k = "view" -> ViewValues[iv]
          [] k = "detailId" -> DetailIdValues[idt]
          [] OTHER -> SongListValues(st, fresh)[isl]]

\* Every key of the update holds the very value the state holds
AllIdentical(st, u) == \A k \in DOMAIN u : u[k] = st[k]

\* Every key of the update holds the state's value or, for an array, an
\* array of the same length with identical elements
AllSameElements(st, u) ==
    \A k \in DOMAIN u :
        \/ u[k] = st[k]
        \/ /\ k \in ArrayKeys
           /\ u[k].ref # 0
           /\ st[k].ref # 0
           /\ u[k].items = st[k].items

DoSubscribe(l) ==
    /\ l \notin Range(subscriptions.order)
    /\ \E w \in {Subscribe(Begin, l)} : Commit(w)
    /\ subscriptions' = [subscriptions EXCEPT !.order = Append(@, l)]
    /\ last' = [l |-> l, op |-> "subscribe"]
    /\ UNCHANGED <<serverLists, searchInput, player, cache>>

DoUnsubscribe(l) ==
    /\ l \in Range(subscriptions.order)
    /\ \E w \in {Unsubscribe(Begin, l)} : Commit(w)
    /\ subscriptions' = [subscriptions EXCEPT !.cancelled = @ \cup {l}]
    /\ last' = [l |-> l, op |-> "unsubscribe"]
    /\ UNCHANGED <<serverLists, searchInput, player, cache>>

DoSetState(iv, idt, isl) ==
    \E w0 \in {Begin} :
    \E u \in {UpdateOf(state, <<NewRef(w0, 1), NewRef(w0, 2)>>, iv, idt, isl)} :
       /\ DOMAIN u # {}
       /\ \E w \in {SetState(Allocated(w0, 2), u)} :
             /\ Commit(w)
             /\ last' = [op |-> "setState", identical |-> AllIdentical(state, u),
                         keys |-> DOMAIN u, accepted |-> w.accepts,
                         sameElements |-> AllSameElements(state, u)]
       /\ UNCHANGED <<subscriptions, serverLists, searchInput, player, cache>>

NextStore ==
    \/ \E l \in GenericListeners : DoSubscribe(l)
    \/ \E l \in GenericListeners : DoUnsubscribe(l)
    \/ \E iv \in 0..2, idt \in 0..2, isl \in 0..3 : DoSetState(iv, idt, isl)

SpecStore == Init /\ [][NextStore]_vars


-----------------------------------------------------------------------------
(* Claims about the store on its own (SpecStore) *)

\* C1: a setState whose every key holds a value identical (===) to the
\* state's current value invokes no subscriber and leaves the state, its
\* `previous` included, and the last-notified snapshot as they were.
C1_NoOpMerge ==
    [][(last'.op = "setState" /\ last'.identical)
          => /\ last'.accepted = 0
             /\ state' = state
             /\ previousState' = previousState
             /\ log' = <<>>]_vars

\* C1 witness: an identical update, naming the songList array among its
\* keys, was passed while two listeners were registered
C1_Witness ==
    /\ last.op = "setState"
    /\ last.identical
    /\ "songList" \in last.keys
    /\ Len(listeners) = 2
    /\ log = <<>>

\* C2: an accepted setState leaves `previous` = {view, id} of the state it
\* was applied to, also when the update changes view or detailId.
C2_PreviousTracking ==
    [][(last'.op = "setState" /\ last'.accepted > 0)
          => /\ state'.previous.view = state.view
             /\ state'.previous.id = state.detailId]_vars

\* C2 witness: setState({view: album, detailId: "5"}) applied to {view: dash}
C2_Witness ==
    /\ last.op = "setState"
    /\ last.accepted = 1
    /\ {"view", "detailId"} \subseteq last.keys
    /\ state.view = "album"
    /\ state.detailId = JSStr(<<"5">>)
    /\ state.previous.view = "dash"
    /\ state.previous.id = JSUndef

IsActive(l) == l \notin subscriptions.cancelled

\* C3: an accepted setState invokes every registered listener exactly once,
\* in registration order, each with the new state; a listener whose
\* unsubscribe function has been called is not invoked.
C3_NotifyOrder ==
    (last.op = "setState" /\ last.accepted > 0)
        => /\ [i \in DOMAIN log |-> log[i].l] = SelectSeq(subscriptions.order, IsActive)
           /\ \A i \in DOMAIN log : log[i].st = state

\* C3 witness: two listeners registered in the order L2, L1 were notified
C3_Witness ==
    /\ last.op = "setState"
    /\ last.accepted > 0
    /\ Len(log) = 2
    /\ log[1].l = "L2"
    /\ log[2].l = "L1"

\* C3 witness for the second half: a notification after an unsubscribe
C3_WitnessUnsubscribed ==
    /\ last.op = "setState"
    /\ last.accepted > 0
    /\ subscriptions.cancelled # {}
    /\ Len(log) = 1


-----------------------------------------------------------------------------
(* SkytunesStore: the play queue *)

\* Array.prototype.splice(i, 0, x) on a copy, i 0-based
InsertAt(seq, i, x) == SubSeq(seq, 1, i) \o <<x>> \o SubSeq(seq, i + 1, Len(seq))

FileKeys(items) == [i \in DOMAIN items |-> items[i].FileKey]

\* Array.prototype.find(t => t.ID?.toString() === ID); UndefTrack when absent
FindByID(items, id) ==
    IF \E i \in DOMAIN items : items[i].ID = id
    THEN items[CHOOSE i \in DOMAIN items :
                  items[i].ID = id /\ \A j \in 1..(i - 1) : items[j].ID # id]
    ELSE UndefTrack

SetSongList_KeepsCurrent(w, songs, song) == SetState(w, [songList |-> songs])

\* setSongList(songs, song): song || null, song?.FileKey || null
SetSongList(w, songs, song) ==
    SetState(w, [currentSongId |-> IF song.oid = 0 THEN "null" ELSE song.FileKey,
                 songList |-> songs,
                 currentSong |-> IF song.oid = 0 THEN NullTrack ELSE song])

AdvanceTrack_Wraps(w, direction) ==
    LET items == w.state.songList.items
        index == IndexOf(FileKeys(items), w.state.currentSongId)
        nextIndex == (index + direction) % Len(items)
    IN IF items # <<>>
       THEN SetState(w, [currentSongId |-> items[nextIndex + 1].FileKey,
                         currentSong |-> items[nextIndex + 1]])
       ELSE w

\* A variant that moves only from a current track found in songList
AdvanceTrack_NeedsCurrent(w, direction) ==
    LET items == w.state.songList.items
        index == IndexOf(FileKeys(items), w.state.currentSongId)
        nextIndex == index + direction
    IN IF index >= 0 /\ nextIndex >= 0 /\ nextIndex < Len(items)
       THEN SetState(w, [currentSongId |-> items[nextIndex + 1].FileKey,
                         currentSong |-> items[nextIndex + 1]])
       ELSE w

\* advanceTrack(direction)
AdvanceTrack(w, direction) ==
    LET items == w.state.songList.items
        index == IndexOf(FileKeys(items), w.state.currentSongId)
        nextIndex == index + direction
    IN IF nextIndex >= 0 /\ nextIndex < Len(items)
       THEN SetState(w, [currentSongId |-> items[nextIndex + 1].FileKey,
                         currentSong |-> items[nextIndex + 1]])
       ELSE w

\* The scan of addToQueue: one past the last queued entry behind the
\* current one, else one past the current one
InsertIndex(items, index) ==
    LET queuedAfter == {i \in 0..(Len(items) - 1) : i > index /\ items[i + 1].queued}
    IN IF queuedAfter = {} THEN index + 1
       ELSE 1 + CHOOSE i \in queuedAfter : \A j \in queuedAfter : j <= i

\* A variant that marks the track itself and splices it into the songList
\* array in place: every holder of that array sees the new entry
AddToQueue_InPlace(w, track) ==
    LET items == w.state.songList.items
        index == IndexOf(FileKeys(items), w.state.currentSongId)
        queuedTrack == [track EXCEPT !.queued = TRUE]
        marked(a) == [i \in DOMAIN a |-> IF a[i].oid = track.oid THEN queuedTrack ELSE a[i]]
        spliced == InsertAt(marked(items), InsertIndex(items, index), queuedTrack)
        seen(a) == IF a.ref = w.state.songList.ref THEN Arr(a.ref, spliced)
                   ELSE Arr(a.ref, marked(a.items))
        held(st) == [k \in DOMAIN st |-> IF k \in ObjectArrayKeys THEN seen(st[k]) ELSE st[k]]
    IN SetState([w EXCEPT !.state = held(@), !.previousState = held(@)],
                [songList |-> seen(w.state.songList)])

\* addToQueue(track): a queued copy of the track spliced into a copy of songList
AddToQueue(w, track) ==
    LET items == w.state.songList.items
        index == IndexOf(FileKeys(items), w.state.currentSongId)
        queuedTrack == [track EXCEPT !.oid = NewRef(w, 1), !.queued = TRUE]
        newSongList == Arr(NewRef(w, 2), InsertAt(items, InsertIndex(items, index), queuedTrack))
    IN SetState(Allocated(w, 2), [songList |-> newSongList])

\* AudioPlayer.stop(): setSongList([], null)
Stop(w) == SetSongList(Allocated(w, 1), Arr(NewRef(w, 1), <<>>), NullTrack)

\* matchTrack(track): a copy with favorite recomputed from relatedPlaylists
MatchTrack_KeepsFavorite(st, track, oid) == [track EXCEPT !.oid = oid]

MatchTrack(st, track, oid) ==
    [track EXCEPT !.oid = oid,
                  !.favorite = IndexOf(st.relatedPlaylists.items, track.FileKey) > -1]


-----------------------------------------------------------------------------
(* The server: one album, one playlist *)

\* The albums the server knows, and getAlbumDetail(id).related.records
AlbumId == JSNum(5)
AlbumRecords == <<Track(0, 1, "a", FALSE, FALSE),
                  Track(0, 2, "b", FALSE, FALSE),
                  Track(0, 3, "c", FALSE, FALSE)>>

OtherAlbumId == JSNum(6)
OtherAlbumRecords == <<Track(0, 4, "x", FALSE, FALSE),
                       Track(0, 5, "y", FALSE, FALSE)>>

Playlist(oid, key, related) == [oid |-> oid, related |-> related, listKey |-> key]

\* Number(id) for the ids the hash can carry
NumberOf(s) ==
    LET signed == s # <<>> /\ Head(s) \in {"-", "+"}
        body == IF signed THEN Tail(s) ELSE s
    IN IF body # <<>> /\ \A i \in DOMAIN body : IsDigit(body[i])
       THEN JSNum((IF s[1] = "-" THEN -1 ELSE 1) * LeadingDigits(body, 0))
       ELSE IF s = <<>> THEN JSNum(0)
       ELSE JSNaN

PendingOp(op, arg, lists) == [lists |-> lists, op |-> op, arg |-> arg]

Await(w, p) == [w EXCEPT !.pending = @ (+) SetToBag({p})]
Resumed(w, p) == [w EXCEPT !.pending = @ (-) SetToBag({p})]

-----------------------------------------------------------------------------
(* SkytunesStore: loads, playlists, favorites *)

\* records.map(t => this.matchTrack(t)): one new object per record
MatchAll(w, records) ==
    [i \in DOMAIN records |-> MatchTrack(w.state, records[i], NewRef(w, i))]

\* displayedTracks.find(f => !!f.artistFk)?.artistFk, 0 when there is none
RECURSIVE FirstArtistFk(_)
FirstArtistFk(items) ==
    IF items = <<>> THEN 0
    ELSE IF Head(items).artistFk # 0 THEN Head(items).artistFk
    ELSE FirstArtistFk(Tail(items))

\* loadBanner(titleName) up to its await: returns at once, the banner
\* untouched, unless a displayed track names its artist.  Every caller has
\* just set the view and detailId of the entity whose name it passes
LoadBanner(w) ==
    IF FirstArtistFk(w.state.displayedTracks.items) # 0
    THEN Await(w, PendingOp("loadBanner",
                            [artistFk |-> FirstArtistFk(w.state.displayedTracks.items),
                             titleName |-> NameOf(w.state.view, w.state.detailId)],
                            <<>>))
    ELSE w

\* loadBanner() after getArtistDetail answered: no row clears the banner,
\* a row makes a new banner labelled with the view of that moment
LoadBannerDone(w, artistFk, titleName, found) ==
    IF found
    THEN SetState(Allocated(w, 1),
                  [banner |-> Banner(NewRef(w, 1), artistFk, w.state.view, titleName)])
    ELSE SetState(w, [banner |-> NullBanner])

\* loadAlbum(id) up to its await
LoadAlbum(w, id) == Await(w, PendingOp("loadAlbum", id, <<>>))

\* loadAlbum(id) after getAlbumDetail answered
LoadAlbumDone(w, id, records) ==
    LET n == Len(records)
        shown == Arr(NewRef(w, n + 1), MatchAll(w, records))
    IN Bind(SetState(Allocated(w, n + 1),
                     [view |-> "album", type |-> "detail", detailId |-> id,
                      page |-> JSNum(0), count |-> 0, displayedTracks |-> shown]),
            LAMBDA w1 : LoadBanner(w1))

RECURSIVE Flatten(_)
Flatten(lists) ==
    IF lists = <<>> THEN <<>> ELSE Head(lists).related \o Flatten(Tail(lists))

\* extractRelated(records)
ExtractRelated(w, records) ==
    SetState(Allocated(w, 1), [relatedPlaylists |-> Arr(NewRef(w, 1), Flatten(records))])

\* lists.records as parsed from a reply: a new array of new objects
Records(w, lists) ==
    Arr(NewRef(w, Len(lists) + 1),
        [i \in DOMAIN lists |-> Playlist(NewRef(w, i), lists[i].listKey, lists[i].related)])

\* loadDash() after both replies: the dashboard setState, then extractRelated
LoadDashDone(w, lists) ==
    Bind(SetState(Allocated(w, Len(lists) + 1), [playlistLib |-> Records(w, lists)]),
         LAMBDA w1 : ExtractRelated(w1, w1.state.playlistLib.items))

Rematched(w) ==
    LET n == Len(w.state.displayedTracks.items)
    IN SetState(Allocated(w, n + 1),
                [displayedTracks |->
                    Arr(NewRef(w, n + 1), MatchAll(w, w.state.displayedTracks.items))])

\* rematch() after getPlaylistGrid answered
RematchDone(w, lists) ==
    Bind(SetState(Allocated(w, Len(lists) + 1), [playlistLib |-> Records(w, lists)]),
         LAMBDA w1 : Bind(ExtractRelated(w1, w1.state.playlistLib.items),
                          LAMBDA w2 : Rematched(w2)))

\* updateList with the key always appended
Toggled_AlwaysAppends(playlist, fileKey) ==
    [playlist EXCEPT !.related = Append(@, fileKey)]

\* The playlist updateList saves: the menu track's key toggled in `related`
Toggled(playlist, fileKey) ==
    [playlist EXCEPT !.related = IF IndexOf(@, fileKey) > -1
                                 THEN FilterOut(@, fileKey)
                                 ELSE Append(@, fileKey)]

\* savePlaylist as the server applies it
Saved(lists, updated) ==
    [i \in DOMAIN lists |->
        IF lists[i].listKey = updated.listKey
        THEN [related |-> updated.related, listKey |-> updated.listKey]
        ELSE lists[i]]

Not(b) == IF b = "true" THEN "false" ELSE "true"


-----------------------------------------------------------------------------
(* URLController: handleURLChange, handleDetailChange, handleViewChange *)

Dispatched(w, what) == [w EXCEPT !.dispatched = Append(@, what)]

\* loadGenre(genre, page) suspended at getGenreDetail
GenreRequest(genre, page) ==
    PendingOp("loadGenre", [page |-> page, genre |-> JSStr(genre)], <<>>)

\* handleDetailChange(type, id, page): album and artist ids go through
\* Number(), genre and playlist ids are passed as they are; any other type
\* does nothing
HandleDetailChange(w, type, id, page) ==
    IF type = "album" THEN LoadAlbum(Dispatched(w, "loadAlbum"), NumberOf(id))
    ELSE IF type = "artist"
    THEN Await(Dispatched(w, "loadArtist"), PendingOp("loadArtist", NumberOf(id), <<>>))
    ELSE IF type = "genre"
    THEN Await(Dispatched(w, "loadGenre"), GenreRequest(id, NumberOf(page)))
    ELSE IF type = "playlist"
    THEN Await(Dispatched(w, "loadPlaylist"), PendingOp("loadPlaylist", JSStr(id), <<>>))
    ELSE w

\* handleViewChange(view, page)
HandleViewChange(w, view, page) ==
    IF view \in {"library", "artists", "playlists", "albums", "genres"}
    THEN Await(Dispatched(w, view), PendingOp(view, page, <<>>))
    ELSE SetState(Dispatched(w, "setState"), [view |-> view])

\* A variant that releases isUpdatingFromURL before it dispatches
HandleURLChange_ReleasedEarly(w) ==
    IF w.fromState THEN w
    ELSE Bind(ParseURL(w.hash), LAMBDA url :
           LET w1 == [w EXCEPT !.fromURL = FALSE]
               w2 == IF w.state.view # url.view \/ w.state.detailId # url.detailId
                     THEN IF Truthy(url.detailId)
                          THEN HandleDetailChange(w1, url.view, url.detailId.s,
                                                  IF url.page = JSUndef THEN <<"1">>
                                                  ELSE ToStringJS(url.page))
                          ELSE HandleViewChange(w1, url.view,
                                                IF Truthy(url.page) THEN url.page ELSE JSNum(1))
                     ELSE w1
           IN [w2 EXCEPT !.fromURL = TRUE, !.timers = Append(@, "resetURL")])

\* handleURLChange()
HandleURLChange(w) ==
    IF w.fromState THEN w
    ELSE Bind(ParseURL(w.hash), LAMBDA url :
           LET w1 == [w EXCEPT !.fromURL = TRUE]
               w2 == IF w.state.view # url.view \/ w.state.detailId # url.detailId
                     THEN IF Truthy(url.detailId)
                          THEN HandleDetailChange(w1, url.view, url.detailId.s,
                                                  IF url.page = JSUndef THEN <<"1">>
                                                  ELSE ToStringJS(url.page))
                          ELSE HandleViewChange(w1, url.view,
                                                IF Truthy(url.page) THEN url.page ELSE JSNum(1))
                     ELSE w1
           IN [w2 EXCEPT !.timers = Append(@, "resetURL")])

\* init(): the initial URL check
InitURL(w) ==
    LET url == ParseURL(w.hash)
    IN IF url.view # "dash" \/ Truthy(url.detailId) THEN HandleURLChange(w) ELSE w

-----------------------------------------------------------------------------
(* AudioPlayer: handleStoreChange, loadAndPlaySong, the audio element *)

\* One loadAndPlaySong call suspended at an await: "load" (the loadeddata /
\* error promise), "announcer" (handleAnnouncer), "play" (audioElement.play())
Flight(song, stage) == [song |-> song, stage |-> stage]

AtStage(stage, f) == f.stage = stage
NotAtStage(stage, f) == f.stage # stage

\* loadAndPlaySong(state) up to its first await: pause, set the new source.
\* Setting src starts a new load, which rejects the play() promises still
\* pending; the loadeddata and error listeners of earlier calls stay attached
LoadAndPlaySong(pl, songId) ==
    [pl EXCEPT !.isPlaying = FALSE, !.src = songId, !.loaded = FALSE,
               !.flights = Append(SelectSeq(@, LAMBDA f : NotAtStage("play", f)),
                                  Flight(songId, "load"))]

\* handleStoreChange(state) up to its first await.  audioElement.src is an
\* absolute URL and never equals a file key, so a changed, truthy
\* currentSongId always reaches loadAndPlaySong
HandleStoreChange(pl, st) ==
    LET seen == [pl EXCEPT !.currentSongId = st.currentSongId]
    IN IF pl.currentSongId # st.currentSongId
          /\ st.currentSongId \notin {"undefined", "null"}
       THEN LoadAndPlaySong(seen, st.currentSongId)
       ELSE seen

\* The player after the listener calls of one store operation
RECURSIVE Heard(_, _)
Heard(pl, lg) ==
    IF lg = <<>> THEN pl
    ELSE Heard(IF Head(lg).l = "audio" THEN HandleStoreChange(pl, Head(lg).st) ELSE pl,
               Tail(lg))

\* loadeddata: every pending load promise resolves (each call's listener is
\* on the one audio element); announcerEnabled is true from construction,
\* so each call goes on to await handleAnnouncer
OnLoadedData(pl) ==
    [pl EXCEPT !.loaded = TRUE,
               !.flights = [i \in DOMAIN @ |->
                              IF @[i].stage = "load" THEN Flight(@[i].song, "announcer")
                              ELSE @[i]]]

\* error: every pending load promise rejects and the calls end in their catch
OnAudioError(pl) ==
    [pl EXCEPT !.isPlaying = FALSE,
               !.flights = SelectSeq(@, LAMBDA f : NotAtStage("load", f))]

\* handleAnnouncer returned for call i: audioElement.play() is called
OnAnnouncerReturned(pl, i) == [pl EXCEPT !.flights[i].stage = "play"]

\* The songs whose calls report "Now playing" when playback starts
NowPlaying(pl) ==
    LET playing == SelectSeq(pl.flights, LAMBDA f : AtStage("play", f))
    IN [i \in DOMAIN playing |-> playing[i].song]

\* Playback starts: every pending play() promise resolves
OnPlaying(pl) ==
    [pl EXCEPT !.isPlaying = TRUE,
               !.flights = SelectSeq(@, LAMBDA f : NotAtStage("play", f))]

\* play() is refused: the pending play() promises reject
OnPlayRejected(pl) ==
    [pl EXCEPT !.isPlaying = FALSE,
               !.flights = SelectSeq(@, LAMBDA f : NotAtStage("play", f))]

-----------------------------------------------------------------------------
(* SkytunesApp: construction and initializeApp *)

\* The world once `new SkytunesApp().init()` has run to its first await:
\* the carousel and the audio player subscribed in their constructors, the
\* App subscribed, the URL controller initialised, loadDash started
Started(h) ==
    LET w0 == [state |-> InitialState, previousState |-> EmptySnapshot,
               listeners |-> <<"carousel", "audio", "app">>, log |-> <<>>,
               hash |-> h, timers |-> <<>>, hashEvents |-> <<>>,
               pending |-> EmptyBag, next |-> 0, fromURL |-> FALSE,
               fromState |-> FALSE, urlCalls |-> 0, dispatched |-> <<>>, accepts |-> 0]
    IN Await(InitURL(w0), PendingOp("getDashboard", JSUndef, <<>>))

\* The displayed tracks whose playlist menu the user opens
MenuTrackIDs == {1}

InitialLists == <<[related |-> <<"a">>, listKey |-> "p"]>>

\* The hashes a page load or the user's address bar can carry
Hashes == {<<>>, <<"#", "album", "/", "5">>, <<"#", "settings">>}

\* The invocation log is kept for the store on its own only
Quiet(w) == [w EXCEPT !.log = <<>>]

\* The URL of the last hashchange handled with no guard set; none before one
NoNav == [view |-> "", detailId |-> JSUndef, page |-> JSUndef]

\* The queue call a handler made; none for the handlers outside the queue
NoQueueCall == [key |-> "", direction |-> 0]

InitFrom(w, lists) ==
    \E f \in {Renaming(Quiet(w))} :
        /\ state = RenameState(w.state, f)
        /\ previousState = RenameState(w.previousState, f)
        /\ listeners = w.listeners
        /\ log = <<>>
        /\ subscriptions = [order |-> w.listeners, cancelled |-> {}]
        /\ hash = w.hash
        /\ isUpdatingFromURL = w.fromURL
        /\ isUpdatingFromState = w.fromState
        /\ timers = w.timers
        /\ hashEvents = w.hashEvents
        /\ pending = w.pending
        /\ serverLists = lists
        /\ searchInput = ""
        /\ player = Heard(InitialPlayer, w.log)
        /\ cache = DashRequested
        /\ last = [urlCalls |-> w.urlCalls, dispatched |-> w.dispatched, origin |-> "",
                   op |-> "init", accepted |-> w.accepts,
                   viewChanged |-> FALSE, same |-> FALSE, inputs |-> 0,
                   run |-> 0, call |-> NoQueueCall, nav |-> NoNav, calls |-> 0]

InitApp == \E h \in {<<>>, <<"#", "album", "/", "5">>} : InitFrom(Started(h), InitialLists)

\* What the claims about one handler run read afterwards
Did(name, w) ==
    [urlCalls |-> w.urlCalls, dispatched |-> w.dispatched, origin |-> "",
     op |-> name, accepted |-> w.accepts,
     viewChanged |-> w.state.view # state.view, same |-> FALSE, inputs |-> last.inputs,
     run |-> last.run, call |-> NoQueueCall, nav |-> last.nav,
     calls |-> last.calls]

Input(l) == [l EXCEPT !.inputs = @ + 1]

Step(name, w) ==
    /\ Commit(Quiet(w))
    /\ last' = Did(name, w)
    /\ UNCHANGED <<subscriptions, serverLists, searchInput, player, cache>>

\* A handler run the user started
UserStep(name, w) ==
    /\ last.inputs < MaxInputs
    /\ Commit(Quiet(w))
    /\ last' = Input(Did(name, w))
    /\ UNCHANGED <<subscriptions, serverLists, searchInput, player, cache>>

RemoveAt(seq, i) == SubSeq(seq, 1, i - 1) \o SubSeq(seq, i + 1, Len(seq))

\* A zero-delay timer fires: the oldest first; it may overtake the 999 ms
\* timers of handleInput set before it
FireTimer ==
    \E i \in DOMAIN timers :
        /\ timers[i] # "search"
        /\ \A j \in 1..(i - 1) : timers[j] = "search"
        /\ \E w0 \in {[Begin EXCEPT !.timers = RemoveAt(@, i)]} :
              IF timers[i] = "resetState"
              THEN Step("timer", [w0 EXCEPT !.fromState = FALSE])
              ELSE Step("timer", [w0 EXCEPT !.fromURL = FALSE])

\* The oldest queued hashchange event reaches the listener init() registered
DeliverHashChange ==
    /\ hashEvents # <<>>
    /\ \E w \in {HandleURLChange([Begin EXCEPT !.hashEvents = Tail(@)])} :
          /\ Commit(Quiet(w))
          /\ last' = [Did("hashchange", w) EXCEPT
                         !.origin = Head(hashEvents).origin,
                         !.same = /\ Head(hashEvents).hash = hash
                                  /\ HashOfState(state) = hash]
          /\ UNCHANGED <<subscriptions, serverLists, searchInput, player, cache>>

\* The user edits the address bar, goes back or forward, or follows a plain link
UserNavigate(h) ==
    /\ h # hash
    /\ UserStep("navigate", [Begin EXCEPT !.hash = h,
                                      !.hashEvents = Append(@, [hash |-> h, origin |-> "user"])])

\* handleClick, [data-view] branch
ClickView(view) ==
    \E w \in {HandleViewChange(Begin, view, JSNum(1))} : UserStep("clickView", w)

\* handleClick, [data-type] branch: an album card of the dashboard
ClickDetail(id) ==
    /\ state.view = "dash"
    /\ state.playlistLib.ref # 0
    /\ \E w \in {HandleDetailChange(Begin, "album", id, <<"1">>)} : UserStep("clickDetail", w)

\* handleClick, [data-list-id] branch: the playlist menu of a displayed track
ClickListId(id) ==
    /\ FindByID(state.displayedTracks.items, id).oid # 0
    /\ \E w \in {SetState(Begin, [menuTrack |-> FindByID(state.displayedTracks.items, id),
                                  listOpen |-> Not(state.listOpen)])} :
          UserStep("clickList", w)

\* handleClick, [data-add-id] branch: updateList(menuList) up to its await;
\* the request either reaches the server, which applies it, or is rejected
SaveOp(ok) == PendingOp("savePlaylist", IF ok THEN JSUndef ELSE JSStr(<<"rejected">>), <<>>)

ClickAddId(i) ==
    /\ last.inputs < MaxInputs
    /\ state.listOpen = "true"
    /\ state.menuTrack.oid # 0
    /\ i \in DOMAIN state.playlistLib.items
    /\ \E updated \in {Toggled(state.playlistLib.items[i], state.menuTrack.FileKey)},
          ok \in BOOLEAN :
          /\ serverLists' = IF ok THEN Saved(serverLists, updated) ELSE serverLists
          /\ \E w \in {Await(Begin, SaveOp(ok))} :
                /\ Commit(Quiet(w))
                /\ last' = Input(Did("clickAdd", w))
                              @@ [fileKey |-> state.menuTrack.FileKey,
                                  ok |-> ok,
                                  given |-> state.playlistLib.items[i],
                                  saved |-> updated]
          /\ UNCHANGED <<subscriptions, searchInput, player, cache>>

\* A reply arrives: the awaiting function runs on to its next await or its end
Replied(p, w) ==
    /\ BagIn(p, pending)
    /\ Step(p.op, w)

LoadDashOp == PendingOp("getPlaylistGrid", JSStr(<<"loadDash">>), <<>>)
RematchOp == PendingOp("getPlaylistGrid", JSStr(<<"rematch">>), <<>>)

\* loadDash(): getDashboard answered, getPlaylistGrid requested
DashboardReplied ==
    \E p \in {PendingOp("getDashboard", JSUndef, <<>>)} :
    \E w \in {Await(Resumed(Begin, p), [LoadDashOp EXCEPT !.lists = serverLists])} :
        Replied(p, w)

\* loadDash(): getPlaylistGrid answered
PlaylistGridReplied(lists) ==
    \E p \in {[LoadDashOp EXCEPT !.lists = lists]} :
    \E w \in {LoadDashDone(Resumed(Begin, p), lists)} :
        Replied(p, w)

\* loadAlbum(id): getAlbumDetail answered; an unknown album fails the request
AlbumReplied(id) ==
    \E p \in {PendingOp("loadAlbum", id, <<>>)} :
    \E w \in {IF id = AlbumId
              THEN LoadAlbumDone(Resumed(Begin, p), id, AlbumRecords)
              ELSE Resumed(Begin, p)} :
        Replied(p, w)

\* updateList(): savePlaylist answered; the menu closes and rematch() starts
PlaylistSaved ==
    \E p \in {SaveOp(TRUE)} :
    \E w \in {Await(SetState(Resumed(Begin, p), [listOpen |-> "false"]),
                    [RematchOp EXCEPT !.lists = serverLists])} :
        Replied(p, w)

\* updateList(): savePlaylist rejected; the rest of updateList never runs
PlaylistSaveFailed ==
    \E p \in {SaveOp(FALSE)} :
        /\ BagIn(p, pending)
        /\ Step("savePlaylistRejected", Resumed(Begin, p))

\* rematch(): getPlaylistGrid answered
RematchReplied(lists) ==
    \E p \in {[RematchOp EXCEPT !.lists = lists]} :
    \E w \in {RematchDone(Resumed(Begin, p), lists)} :
        Replied(p, w)

\* The playlist contents a reply can carry
ListsOf(ps) == {p.lists : p \in ps}

NextApp ==
    \/ FireTimer
    \/ DeliverHashChange
    \/ \E h \in Hashes : UserNavigate(h)
    \/ \E view \in {"dash", "settings"} : ClickView(view)
    \/ ClickDetail(<<"5">>)
    \/ \E id \in MenuTrackIDs : ClickListId(id)
    \/ \E i \in 1..Len(InitialLists) : ClickAddId(i)
    \/ DashboardReplied
    \/ \E lists \in ListsOf(BagToSet(pending)) : PlaylistGridReplied(lists)
    \/ AlbumReplied(AlbumId)
    \/ PlaylistSaved
    \/ PlaylistSaveFailed
    \/ \E lists \in ListsOf(BagToSet(pending)) : RematchReplied(lists)

SpecApp == InitApp /\ [][NextApp]_vars

-----------------------------------------------------------------------------
(* Claims about the running application (SpecApp) *)

Related(st) == Range(st.relatedPlaylists.items)

\* C8: whenever no store operation is in flight, every displayed track has
\* favorite = (its FileKey occurs in relatedPlaylists).
C8_FavoritesFollowPlaylists ==
    pending = EmptyBag
        => \A i \in DOMAIN state.displayedTracks.items :
              state.displayedTracks.items[i].favorite
                  <=> state.displayedTracks.items[i].FileKey \in Related(state)

\* C10: a handler run with one accepted setState that changes the view calls
\* updateURL at most once, and the hashchange event queued by an updateURL
\* hash write, delivered while the hash and the state are still the ones of
\* that write, makes handleURLChange start no load and no setState.
C10_NoEchoNavigation ==
    /\ (last.accepted = 1 /\ last.viewChanged) => last.urlCalls <= 1
    /\ (last.op = "hashchange" /\ last.origin = "state" /\ last.same)
          => last.dispatched = <<>>


-----------------------------------------------------------------------------
(* The play queue in the running application (SpecQueue) *)

\* The application once the dashboard and the album are loaded, the user
\* has started the album at its second track and moved on to the other
\* album, and no task is left
Playing ==
    LET started == [Started(<<>>) EXCEPT !.pending = EmptyBag]
        shown == LoadAlbumDone(LoadDashDone(started, InitialLists), AlbumId, AlbumRecords)
        playing == SetSongList(shown, shown.state.displayedTracks,
                               shown.state.displayedTracks.items[2])
        moved == LoadAlbumDone(playing, OtherAlbumId, OtherAlbumRecords)
    IN [moved EXCEPT !.timers = <<>>, !.hashEvents = <<>>, !.fromState = FALSE]

InitQueue == InitFrom(Playing, InitialLists)

\* The arguments of the call a queue handler made
QueueCall(direction, key) == [key |-> key, direction |-> direction]

\* A queue handler run; the user acts once the zero-delay timers of the
\* handler before have fired.  `run` counts the addToQueue calls since another
\* queue handler last changed the state
QueueStep(name, w, call) ==
    /\ timers = <<>>
    /\ Commit(Quiet(w))
    /\ Len(w.state.songList.items) <= MaxQueue
    /\ last' = [Did(name, w) EXCEPT
                  !.call = call,
                  !.run = IF name = "addToQueue" THEN @ + 1
                          ELSE IF w.accepts > 0 THEN 0
                          ELSE @]
    /\ UNCHANGED <<subscriptions, serverLists, searchInput, player, cache>>

\* handleClick, [data-track-id] branch, a row of the track list
ClickTrack(id) ==
    /\ state.view # "search"
    /\ \E track \in {FindByID(state.displayedTracks.items, id)} :
          /\ track.oid # 0
          /\ \E w \in {SetSongList(Begin, state.displayedTracks, track)} :
                QueueStep("setSongList", w, QueueCall(0, track.FileKey))

\* handleClick, [data-track-id] branch, a .playlist-item row of the queue drawer
ClickQueueItem(i) ==
    /\ i \in DOMAIN state.songList.items
    /\ \E track \in {FindByID(state.songList.items, state.songList.items[i].ID)} :
       \E w \in {SetSongList(Begin, state.songList, track)} :
          QueueStep("queueItem", w, QueueCall(0, track.FileKey))

\* handleClick, [data-queue-id] branch
ClickQueue(id) ==
    \E track \in {FindByID(state.displayedTracks.items, id)} :
       /\ track.oid # 0
       /\ \E w \in {AddToQueue(Begin, track)} :
             QueueStep("addToQueue", w, QueueCall(0, track.FileKey))

\* The next and previous buttons, the media keys, the end of a song
Advance(direction) ==
    \E w \in {AdvanceTrack(Begin, direction)} :
       QueueStep("advanceTrack", w, QueueCall(direction, ""))

\* The stop button
ClickStop == \E w \in {Stop(Begin)} : QueueStep("stop", w, QueueCall(0, ""))

TrackIDs == {OtherAlbumRecords[i].ID : i \in DOMAIN OtherAlbumRecords}

NextQueue ==
    \/ FireTimer
    \/ \E id \in TrackIDs : ClickTrack(id)
    \/ \E i \in 1..MaxQueue : ClickQueueItem(i)
    \/ \E id \in TrackIDs : ClickQueue(id)
    \/ \E direction \in {-1, 1} : Advance(direction)
    \/ ClickStop

SpecQueue == InitQueue /\ [][NextQueue]_vars


-----------------------------------------------------------------------------
(* Claims about the play queue (SpecQueue) *)

Distinct(keys) == \A i, j \in DOMAIN keys : i # j => keys[i] # keys[j]

\* A track's fields, its identity left out
Fields(track) == [track EXCEPT !.oid = 0]

\* C4: with pairwise distinct file keys and the current track at index k,
\* advanceTrack(d) for d = 1 or -1 makes entry k+d the current song when the
\* list has one, and changes nothing when k+d falls off either end.
C4_AdvanceTrack ==
    [][LET items == state.songList.items
           k == IndexOf(FileKeys(items), state.currentSongId)
           d == last'.call.direction
       IN (last'.op = "advanceTrack" /\ Distinct(FileKeys(items)) /\ k >= 0)
             => IF k + d >= 0 /\ k + d < Len(items)
                THEN /\ state'.currentSongId = items[k + d + 1].FileKey
                     /\ Fields(state'.currentSong) = Fields(items[k + d + 1])
                     /\ state'.currentSong = state'.songList.items[k + d + 1]
                     /\ FileKeys(state'.songList.items) = FileKeys(items)
                ELSE /\ last'.accepted = 0
                     /\ state' = state]_vars

\* C4 witness: [a,b,c] with c current, just after an advanceTrack(1) that
\* changed nothing
C4_Witness ==
    /\ last.op = "advanceTrack"
    /\ last.call.direction = 1
    /\ last.accepted = 0
    /\ FileKeys(state.songList.items) = <<"a", "b", "c">>
    /\ state.currentSongId = "c"

\* C5: an addToQueue call, the r-th in a row made while the current track
\* (at index k) stays the same, puts the queued copy at index k + r: behind
\* the current track and the copies queued before it in the row, in front of
\* every other entry, which keep their order.
C5_AddToQueueOrder ==
    [][LET items == state.songList.items
           after == state'.songList.items
           k == IndexOf(FileKeys(items), state.currentSongId)
           at == k + 1 + last.run
       IN (last'.op = "addToQueue" /\ Distinct(FileKeys(items)) /\ k >= 0)
             => /\ Len(after) = Len(items) + 1
                /\ at <= Len(items)
                /\ after[at + 1].queued
                /\ after[at + 1].FileKey = last'.call.key
                /\ \A i \in 1..at : Fields(after[i]) = Fields(items[i])
                /\ \A i \in (at + 1)..Len(items) : Fields(after[i + 1]) = Fields(items[i])]_vars

\* C5 witness: [a,b,c] with b current became [a,b,x',y',c]
C5_Witness ==
    /\ last.op = "addToQueue"
    /\ last.run = 2
    /\ FileKeys(state.songList.items) = <<"a", "b", "x", "y", "c">>
    /\ state.songList.items[3].queued
    /\ state.songList.items[4].queued
    /\ state.currentSongId = "b"

\* C6: currentSongId is absent or the FileKey of an entry of songList.
C6_CurrentSongInList ==
    \/ state.currentSongId \in {"undefined", "null"}
    \/ \E i \in DOMAIN state.songList.items :
          state.songList.items[i].FileKey = state.currentSongId

\* C6 witness: a queued copy is the current song, reached by advanceTrack
C6_Witness ==
    /\ last.op = "advanceTrack"
    /\ state.currentSong.queued
    /\ state.currentSongId = state.currentSong.FileKey
    /\ Len(state.songList.items) > 1


-----------------------------------------------------------------------------
(* matchTrack on its own (SpecMatch) *)

MaxRelated == 2

FileKeyChoices == {"a", "b", "c"}

\* The key lists of length at most n
RECURSIVE KeyLists(_)
KeyLists(n) ==
    IF n = 0 THEN {<<>>}
    ELSE KeyLists(n - 1)
            \cup {Append(r, k) : r \in {x \in KeyLists(n - 1) : Len(x) = n - 1},
                                 k \in FileKeyChoices}

\* The application with the dashboard loaded from a playlist naming `related`
InitMatch ==
    \E related \in KeyLists(MaxRelated) :
        InitFrom(LoadDashDone([Started(<<>>) EXCEPT !.pending = EmptyBag],
                              <<[related |-> related, listKey |-> "p"]>>),
                 <<[related |-> related, listKey |-> "p"]>>)

\* matchTrack(track) called once, on a record of a reply or a track in use
DoMatchTrack(track) ==
    /\ last.op = "init"
    /\ \E w \in {Begin} :
          /\ Commit(w)
          /\ last' = [op |-> "matchTrack", arg |-> track,
                      ret |-> MatchTrack(w.state, track, NewRef(w, 1))]
    /\ UNCHANGED <<subscriptions, serverLists, searchInput, player, cache>>

NextMatch ==
    \E oid \in {0, MaxRef}, key \in FileKeyChoices, fav \in BOOLEAN, queued \in BOOLEAN :
        DoMatchTrack(Track(oid, 1, key, fav, queued))

SpecMatch == InitMatch /\ [][NextMatch]_vars

\* C7: matchTrack(T) returns a new object that equals T in every field but
\* `favorite`, which is true exactly when T's FileKey occurs in
\* relatedPlaylists; the state is left as it was and no subscriber is invoked.
C7_MatchTrack ==
    [][last'.op = "matchTrack"
          => /\ last'.ret.oid # last'.arg.oid
             /\ Fields(last'.ret) = [Fields(last'.arg) EXCEPT
                                       !.favorite = last'.arg.FileKey \in Related(state)]
             /\ state' = state
             /\ previousState' = previousState
             /\ log' = <<>>]_vars

\* C7 witness: a track flagged favorite whose key no playlist names came
\* back not favorite, while another key is named
C7_Witness ==
    /\ last.op = "matchTrack"
    /\ last.arg.favorite
    /\ ~last.ret.favorite
    /\ last.arg.FileKey \notin Related(state)
    /\ Related(state) # {}

-----------------------------------------------------------------------------
(* updateURL followed by parseURL (SpecURL) *)

DetailIdChoices ==
    {JSStr(<<"4", "2">>), JSStr(<<"r", "o", "c", "k">>), JSStr(<<"a", "/", "b">>),
     JSNum(42), JSUndef}

PageChoices == {JSNum(0), JSNum(1), JSNum(2), JSNum(3), JSNum(12)}

\* The started application showing `view` with the given detailId and page
InitRoundTrip ==
    \E view \in ValidViews \cup {"settings"}, id \in DetailIdChoices, page \in PageChoices :
        InitFrom([Started(<<>>) EXCEPT !.pending = EmptyBag,
                                       !.state.view = view,
                                       !.state.detailId = id,
                                       !.state.page = page],
                 InitialLists)

\* updateURL(state), then parseURL() on the hash it left
DoUpdateURL ==
    /\ last.op = "init"
    /\ \E w \in {UpdateURL(Begin, state)} :
          /\ Commit(w)
          /\ last' = [op |-> "updateURL", url |-> ParseURL(w.hash)]
    /\ UNCHANGED <<subscriptions, serverLists, searchInput, player, cache>>

NextRoundTrip == DoUpdateURL

SpecURL == InitRoundTrip /\ [][NextRoundTrip]_vars

HasSlash(v) == v.t = "string" /\ \E i \in DOMAIN v.s : v.s[i] = "/"

\* C9: for a recognised view, a present detailId without "/" and a page p,
\* the hash updateURL writes parses back to the same view and detailId, and
\* to page p when p > 1, to no page when p <= 1.
C9_RoundTrip ==
    (/\ last.op = "updateURL"
     /\ state.view \in ValidViews
     /\ state.detailId # JSUndef
     /\ ~HasSlash(state.detailId))
        => /\ last.url.view = state.view
           /\ last.url.detailId = state.detailId
           /\ last.url.page = IF state.page.n > 1 THEN state.page ELSE JSUndef

\* C9 holds where the detailId is a string: {album, "42", 3} comes back as it was
C9_StringRoundTrip ==
    (/\ last.op = "updateURL"
     /\ state.view \in ValidViews
     /\ state.detailId.t = "string"
     /\ ~HasSlash(state.detailId))
        => /\ last.url.view = state.view
           /\ last.url.detailId = state.detailId
           /\ last.url.page = IF state.page.n > 1 THEN state.page ELSE JSUndef

-----------------------------------------------------------------------------
(* loadAlbum once its request has answered (SpecApp) *)

\* What loadAlbum(AlbumId) commits, with `id` the value left in detailId
AlbumShown(id) ==
    /\ state.view = "album"
    /\ state.detailId = id
    /\ Len(state.displayedTracks.items) = Len(AlbumRecords)
    /\ \A i \in DOMAIN AlbumRecords :
          Fields(state.displayedTracks.items[i])
              = Fields([AlbumRecords[i] EXCEPT
                           !.favorite = AlbumRecords[i].FileKey \in Related(state)])
    /\ state.count = 0
    /\ state.page = JSNum(0)
    /\ last.accepted = 1

\* C11: after loadAlbum(id) resolves, one setState has committed view =
\* album, detailId = the string form of the id, displayedTracks = the
\* response tracks in response order, each annotated by matchTrack,
\* count = 0 and page = 0.
C11_LoadAlbum == last.op = "loadAlbum" => AlbumShown(JSStr(ToStringJS(AlbumId)))

\* What the store does commit: everything C11 lists, with the id as the number
\* loadAlbum was called with
C11_LoadAlbumNumericId == last.op = "loadAlbum" => AlbumShown(AlbumId)

-----------------------------------------------------------------------------
(* Search: handleInput, searchByParam (SpecSearch) *)

\* handleInput on the .search-input element: timeoutId is a variable of the
\* call itself and starts as null, so no timer is cleared; a new 999 ms
\* timer is set
HandleInput(w) == [w EXCEPT !.timers = Append(@, "search")]

SearchRequest(stage, term) == PendingOp("getSearch", JSStr(<<stage, term>>), <<>>)

\* searchByParam(term) up to its first await
SearchByParam(w, term) == Await(w, SearchRequest("music", term))

\* A variant that commits what it has after every answer
SearchResumed_CommitsEachAnswer(w, stage, term) ==
    Bind(SetState(Allocated(w, 1),
                  [view |-> "search",
                   searchResults |-> SearchResults(NewRef(w, 1), term),
                   searchParam |-> term]),
         LAMBDA w1 : IF stage = "music" THEN Await(w1, SearchRequest("artist", term))
                     ELSE IF stage = "artist" THEN Await(w1, SearchRequest("album", term))
                     ELSE w1)

\* searchByParam(term) from the answer of one getSearch to the next await,
\* or to the setState that ends it
SearchResumed(w, stage, term) ==
    IF stage = "music" THEN Await(w, SearchRequest("artist", term))
    ELSE IF stage = "artist" THEN Await(w, SearchRequest("album", term))
    ELSE SetState(Allocated(w, 1),
                  [view |-> "search",
                   searchResults |-> SearchResults(NewRef(w, 1), term),
                   searchParam |-> term])

\* The application with its dashboard loaded
Loaded == LoadDashDone([Started(<<>>) EXCEPT !.pending = EmptyBag], InitialLists)

InitSearch == InitFrom(Loaded, InitialLists)

SearchTerms == {"s", "st"}
SearchStages == {"music", "artist", "album"}

SearchDid(name, w, stage, term) == Did(name, w) @@ [term |-> term, stage |-> stage]

\* A timer set by an earlier input event has not fired yet
SearchTimerPending == \E i \in DOMAIN timers : timers[i] = "search"

\* An input event on the search box; `calls` counts the searchByParam calls
\* since the burst of input events began
TypeSearch(value) ==
    /\ last.inputs < MaxInputs
    /\ value # searchInput
    /\ searchInput' = value
    /\ \E w \in {HandleInput(Begin)} :
          /\ Commit(Quiet(w))
          /\ last' = [Input(SearchDid("input", w, "", value)) EXCEPT
                         !.calls = IF SearchTimerPending THEN @ ELSE 0]
    /\ UNCHANGED <<subscriptions, serverLists, player, cache>>

\* A 999 ms timer fires: handleSearch(target.value) reads the input's value now
FireSearchTimer ==
    /\ timers # <<>>
    /\ Head(timers) = "search"
    /\ \E w \in {SearchByParam([Begin EXCEPT !.timers = Tail(@)], searchInput)} :
          /\ Commit(Quiet(w))
          /\ last' = [SearchDid("searchByParam", w, "", searchInput) EXCEPT
                         !.calls = @ + 1]
    /\ UNCHANGED <<subscriptions, serverLists, searchInput, player, cache>>

\* getSearch answered
SearchReplied(stage, term) ==
    \E p \in {SearchRequest(stage, term)} :
        /\ BagIn(p, pending)
        /\ \E w \in {SearchResumed(Resumed(Begin, p), stage, term)} :
              /\ Commit(Quiet(w))
              /\ last' = SearchDid("searchReplied", w, stage, term)
        /\ UNCHANGED <<subscriptions, serverLists, searchInput, player, cache>>

\* getSearch failed: the await throws and searchByParam rejects
SearchFailed(stage, term) ==
    \E p \in {SearchRequest(stage, term)} :
        /\ BagIn(p, pending)
        /\ \E w \in {Resumed(Begin, p)} :
              /\ Commit(Quiet(w))
              /\ last' = SearchDid("searchFailed", w, stage, term)
        /\ UNCHANGED <<subscriptions, serverLists, searchInput, player, cache>>

NextSearch ==
    \/ FireTimer
    \/ DeliverHashChange
    \/ \E value \in SearchTerms : TypeSearch(value)
    \/ FireSearchTimer
    \/ \E stage \in SearchStages, term \in SearchTerms : SearchReplied(stage, term)
    \/ \E stage \in SearchStages, term \in SearchTerms : SearchFailed(stage, term)

SpecSearch == InitSearch /\ [][NextSearch]_vars

\* C12: searchByParam(term) commits searchResults (music, artist, album),
\* searchParam = term and view = search in one setState once the third
\* search has answered, commits nothing before, and a failed search ends
\* the call with the state unchanged and no subscriber notified.
C12_SearchCommit ==
    [][/\ (last'.op = "searchReplied" /\ last'.stage = "album")
            => /\ state'.searchResults.music = Answer("music", last'.term)
               /\ state'.searchResults.artist = Answer("artist", last'.term)
               /\ state'.searchResults.album = Answer("album", last'.term)
               /\ state'.searchParam = last'.term
               /\ state'.view = "search"
               /\ last'.accepted = 1
       /\ (last'.op = "searchReplied" /\ last'.stage # "album")
            => /\ UNCHANGED <<state, previousState>>
               /\ last'.accepted = 0
       /\ last'.op = "searchFailed"
            => /\ UNCHANGED <<state, previousState>>
               /\ last'.accepted = 0
               /\ BagCardinality(pending') = BagCardinality(pending) - 1
      ]_vars

\* The third search of a call fails after an earlier call had committed
C12_Witness ==
    /\ last.op = "searchFailed"
    /\ last.stage = "album"
    /\ state.view = "search"
    /\ state.searchParam # last.term

-----------------------------------------------------------------------------
(* The player behind the store (SpecPlayer) *)

MaxFlights == 2

\* The application showing the album, nothing played yet
Shown ==
    LET shown == LoadAlbumDone(Loaded, AlbumId, AlbumRecords)
    IN [shown EXCEPT !.timers = <<>>, !.hashEvents = <<>>, !.fromState = FALSE]

InitPlayer == InitFrom(Shown, InitialLists)

PlayerDid(name, w, started, toasts) ==
    Did(name, w) @@ [started |-> started, toasts |-> toasts]

\* A store operation of the user; the player's listener runs inside it
PlayerStoreStep(name, w) ==
    /\ last.inputs < MaxInputs
    /\ timers = <<>>
    /\ \E pl \in {Heard(player, w.log)} :
          /\ Len(pl.flights) <= MaxFlights
          /\ player' = pl
          /\ last' = Input(PlayerDid(name, w,
                                     IF pl.flights = player.flights THEN 0
                                     ELSE Len(pl.flights)
                                             - Len(SelectSeq(player.flights,
                                                             LAMBDA f : NotAtStage("play", f))),
                                     <<>>))
                       @@ [changed |-> /\ \E i \in DOMAIN w.log : w.log[i].l = "audio"
                                       /\ w.state.currentSongId # player.currentSongId
                                       /\ w.state.currentSongId \notin {"undefined", "null"}]
    /\ Commit(Quiet(w))
    /\ UNCHANGED <<subscriptions, serverLists, searchInput, cache>>

\* handleClick, [data-track-id] branch, a row of the track list
PlayTrack(id) ==
    \E track \in {FindByID(state.displayedTracks.items, id)} :
       /\ track.oid # 0
       /\ \E w \in {SetSongList(Begin, state.displayedTracks, track)} :
             PlayerStoreStep("setSongList", w)

\* The next and previous buttons and the media keys
SkipTrack(direction) ==
    \E w \in {AdvanceTrack(Begin, direction)} : PlayerStoreStep("advanceTrack", w)

\* An event of the audio element or the return of handleAnnouncer
AudioStep(name, pl, toasts) ==
    /\ player' = pl
    /\ Commit(Quiet(Begin))
    /\ last' = PlayerDid(name, Begin, 0, toasts)
    /\ UNCHANGED <<subscriptions, serverLists, searchInput, cache>>

AudioLoadedData ==
    /\ player.src # ""
    /\ ~player.loaded
    /\ AudioStep("loadeddata", OnLoadedData(player), <<>>)

AudioError ==
    /\ player.src # ""
    /\ ~player.loaded
    /\ AudioStep("error", OnAudioError(player), <<>>)

AnnouncerReturned(i) ==
    /\ i \in DOMAIN player.flights
    /\ player.flights[i].stage = "announcer"
    /\ AudioStep("play", OnAnnouncerReturned(player, i), <<>>)

AudioPlaying ==
    /\ player.loaded
    /\ NowPlaying(player) # <<>>
    /\ AudioStep("playing", OnPlaying(player), NowPlaying(player))

AudioPlayRejected ==
    /\ NowPlaying(player) # <<>>
    /\ AudioStep("playRejected", OnPlayRejected(player), <<>>)

AlbumTrackIDs == {AlbumRecords[i].ID : i \in DOMAIN AlbumRecords}

NextPlayer ==
    \/ FireTimer
    \/ \E id \in AlbumTrackIDs : PlayTrack(id)
    \/ \E direction \in {-1, 1} : SkipTrack(direction)
    \/ AudioLoadedData
    \/ AudioError
    \/ \E i \in 1..(MaxFlights + 1) : AnnouncerReturned(i)
    \/ AudioPlaying
    \/ AudioPlayRejected

SpecPlayer == InitPlayer /\ [][NextPlayer]_vars

\* C13: a store notification whose currentSongId differs from the one the
\* player last saw starts exactly one playback transition, and a transition
\* overtaken by a later track change neither calls play() nor reports
\* "Now playing": only the transition of the track the player saw last does.
C13_OneTransition ==
    /\ last.op \in {"setSongList", "advanceTrack"}
          => last.started = IF last.changed THEN 1 ELSE 0
    /\ \A i \in DOMAIN player.flights :
          player.flights[i].stage = "play" => player.flights[i].song = player.currentSongId
    /\ last.op = "playing"
          => \A i \in DOMAIN last.toasts : last.toasts[i] = player.currentSongId

\* The first half of C13 on its own: one transition per track change
C13_OneTransitionEach ==
    last.op \in {"setSongList", "advanceTrack"}
        => last.started = IF last.changed THEN 1 ELSE 0

-----------------------------------------------------------------------------
(* Navigation by URL with the loads answering (SpecNav, SpecNavFair) *)

\* type of each grid view, as loadArtists, loadAlbums, loadGenres and
\* loadPlaylists set it
GridType(view) ==
    CASE view = "artists" -> "artist"
      [] view = "albums" -> "album"
      [] view = "genres" -> "genre"
      [] OTHER -> "playlist"

\* The records a grid or genre request answers with
GridRecords == <<[oid |-> 0, ID |-> 7]>>
GenreRecords == <<Track(0, 8, "g", FALSE, FALSE)>>

\* loadArtists / loadAlbums / loadGenres(page) and loadPlaylists() after
\* their request answered; loadPlaylists sets page 0
LoadGridDone(w, view, page, records) ==
    LET n == Len(records)
    IN SetState(Allocated(w, n + 1),
                [view |-> view, type |-> GridType(view), detailId |-> JSUndef,
                 page |-> IF view = "playlists" THEN JSNum(0) ELSE page,
                 count |-> n,
                 displayedGrid |-> Arr(NewRef(w, n + 1),
                                       [i \in DOMAIN records |->
                                           [records[i] EXCEPT !.oid = NewRef(w, i)]])])

\* loadLibrary(page) after getLibrary answered
LoadLibraryDone(w, page, records) ==
    LET n == Len(records)
    IN Bind(SetState(Allocated(w, n + 1),
                     [view |-> "library", type |-> "", detailId |-> JSUndef,
                      page |-> page, count |-> n,
                      displayedTracks |-> Arr(NewRef(w, n + 1), MatchAll(w, records))]),
            LAMBDA w1 : LoadBanner(w1))

\* A variant that leaves the page of the load shown before
LoadGenreDone_KeepsPage(w, genre, page, records) ==
    LET n == Len(records)
    IN Bind(SetState(Allocated(w, n + 1),
                     [view |-> "genre", type |-> "detail", detailId |-> genre,
                      count |-> n,
                      displayedTracks |-> Arr(NewRef(w, n + 1), MatchAll(w, records))]),
            LAMBDA w1 : LoadBanner(w1))

\* loadGenre(genre, page) after getGenreDetail answered
LoadGenreDone(w, genre, page, records) ==
    LET n == Len(records)
    IN Bind(SetState(Allocated(w, n + 1),
                     [view |-> "genre", type |-> "detail", detailId |-> genre,
                      page |-> page, count |-> n,
                      displayedTracks |-> Arr(NewRef(w, n + 1), MatchAll(w, records))]),
            LAMBDA w1 : LoadBanner(w1))

\* The first segment of the hash names a view of the allow-list
Recognised(h) ==
    /\ h # <<>>
    /\ Tail(h) # <<>>
    /\ Len(Split(Tail(h), "/")[1]) = 1
    /\ Split(Tail(h), "/")[1][1] \in ValidViews

NavHashes ==
    {<<"#", "artists">>, <<"#", "artists", "/", "3">>,
     <<"#", "genre", "/", "rock">>, <<"#", "genre", "/", "rock", "/", "2">>}

InitNav == InitFrom(Loaded, InitialLists)

\* The user edits the address bar, goes back or forward, or follows a link
NavigateTo(h) ==
    /\ last.inputs < MaxInputs
    /\ h # hash
    /\ \E w \in {[Begin EXCEPT !.hash = h,
                               !.hashEvents = Append(@, [hash |-> h, origin |-> "user"])]} :
          /\ Commit(Quiet(w))
          /\ last' = [Input(Did("navigate", w)) EXCEPT !.nav = NoNav]
    /\ UNCHANGED <<subscriptions, serverLists, searchInput, player, cache>>

\* The oldest queued hashchange event reaches handleURLChange
NavDeliver ==
    /\ hashEvents # <<>>
    /\ \E w \in {HandleURLChange([Begin EXCEPT !.hashEvents = Tail(@)])} :
          /\ Commit(Quiet(w))
          /\ last' = [Did("hashchange", w) EXCEPT
                         !.origin = Head(hashEvents).origin,
                         !.nav = IF isUpdatingFromState THEN @
                                 ELSE IF /\ Recognised(hash)
                                         /\ pending = EmptyBag
                                         /\ Len(hashEvents) = 1
                                      THEN ParseURL(hash) ELSE NoNav]
    /\ UNCHANGED <<subscriptions, serverLists, searchInput, player, cache>>

\* A grid or library request answered
GridReplied(p) ==
    /\ p.op \in {"artists", "albums", "genres", "playlists", "library"}
    /\ \E w \in {IF p.op = "library"
                 THEN LoadLibraryDone(Resumed(Begin, p), p.arg, GenreRecords)
                 ELSE LoadGridDone(Resumed(Begin, p), p.op, p.arg, GridRecords)} :
          Replied(p, w)

\* getGenreDetail answered
GenreReplied(p) ==
    /\ p.op = "loadGenre"
    /\ \E w \in {LoadGenreDone(Resumed(Begin, p), p.arg.genre, p.arg.page, GenreRecords)} :
          Replied(p, w)

GridLoaded == \E p \in BagToSet(pending) : GridReplied(p)
GenreLoaded == \E p \in BagToSet(pending) : GenreReplied(p)

NextNav ==
    \/ \E h \in NavHashes : NavigateTo(h)
    \/ NavDeliver
    \/ FireTimer
    \/ GridLoaded
    \/ GenreLoaded

SpecNav == InitNav /\ [][NextNav]_vars

\* Every queued event is delivered, every timer fires, every load answers
SpecNavFair ==
    /\ SpecNav
    /\ WF_vars(NavDeliver)
    /\ WF_vars(FireTimer)
    /\ WF_vars(GridLoaded)
    /\ WF_vars(GenreLoaded)

NavMatches(u) ==
    /\ state.view = u.view
    /\ state.detailId = u.detailId
    /\ u.page # JSUndef => state.page = u.page

\* C14: once a hashchange to a URL with a recognised view has been handled
\* with no guard set, and with no further input, the state's view and
\* detailId eventually equal the parsed URL's, and the state's page equals
\* the URL's page when the URL carries one.
C14_StateFollowsURL ==
    (last.nav # NoNav) ~> (last.nav = NoNav \/ NavMatches(last.nav))

(* Supporting check: a delivery to a list view without a page segment is
   followed by the state. *)
C14_ListViewFollows ==
    (last.nav # NoNav /\ last.nav.detailId = JSUndef)
        ~> (last.nav = NoNav \/ NavMatches(last.nav))

-----------------------------------------------------------------------------
(* updateList: what is saved, and what happens after the save *)

Members(seq) == {seq[i] : i \in DOMAIN seq}

\* `saved` is `given` with the membership of `key`, and of no other key, changed
OneKeyToggled(given, saved, key) ==
    /\ [saved EXCEPT !.related = given.related] = given
    /\ \A k \in Members(given.related) \cup Members(saved.related) \cup {key} :
          ((k \in Members(saved.related)) # (k \in Members(given.related))) <=> (k = key)

\* The rematch() calls waiting for their getPlaylistGrid answer
RematchesPending ==
    LET S == {p \in BagToSet(pending) : p.op = RematchOp.op /\ p.arg = RematchOp.arg}
    IN BagCardinality([p \in S |-> CopiesIn(p, pending)])

ServerRelated(listKey) ==
    {serverLists[i].related : i \in {j \in DOMAIN serverLists : serverLists[j].listKey = listKey}}

C15_WitnessRejected ==
    /\ last.op = "savePlaylistRejected"
    /\ state.listOpen = "true"
    /\ RematchesPending = 0

-----------------------------------------------------------------------------
(* handleInput: the search box *)

\* C16: a burst of input events on the search box, each arriving before the
\* timer of the one before has fired, leads to a single searchByParam call,
\* made with the value the input holds after the last event.
C16_Debounce ==
    /\ last.calls <= 1
    /\ last.op = "searchByParam" => last.term = searchInput

\* The part of C16 the code keeps: every call carries the input's latest value
C16_LatestValue ==
    last.op = "searchByParam" => last.term = searchInput

-----------------------------------------------------------------------------
(* setState and arrays with the same elements *)

\* C17: a setState whose keys all hold the state's value or, for a
\* sequence, a sequence of the same length with pairwise identical elements
\* (a fresh copy of songList) does not replace the state, does not
\* overwrite `previous`, and invokes no subscriber.
C17_SameElementsUnchanged ==
    [][(last'.op = "setState" /\ last'.sameElements)
          => /\ last'.accepted = 0
             /\ state' = state
             /\ log' = <<>>]_vars

\* What the code does with a fresh copy: the update is accepted, `previous`
\* is written anew and every listener is invoked
C17_FreshCopyAccepted ==
    [][(last'.op = "setState" /\ last'.sameElements /\ ~last'.identical)
          => /\ last'.accepted = 1
             /\ state'.songList.items = state.songList.items
             /\ state'.previous.view = state.view
             /\ Len(log') = Len(listeners)]_vars

-----------------------------------------------------------------------------
(* notify() called from outside setState *)

\* store.notify() called directly
DoNotify ==
    /\ \E w \in {Notify(Begin)} :
          /\ Commit(w)
          /\ last' = [op |-> "notify", changed |-> HasStateChanged(state, previousState)]
    /\ UNCHANGED <<subscriptions, serverLists, searchInput, player, cache>>

NextNotify ==
    \/ \E l \in GenericListeners : DoSubscribe(l)
    \/ \E l \in GenericListeners : DoUnsubscribe(l)
    \/ \E iv \in 0..2, idt \in 0..2, isl \in 0..3 : DoSetState(iv, idt, isl)
    \/ DoNotify

SpecNotify == Init /\ [][NextNotify]_vars

\* C18: a notify() that no accepted setState made, the first call after
\* construction included, invokes no listener; after it the snapshot
\* equals the state on every key, and calling it again changes nothing.
C18_NotifyWithoutSetState ==
    [][last'.op = "notify"
          => /\ log' = <<>>
             /\ previousState' = state'
             /\ ~HasStateChanged(state', previousState')]_vars

\* The part of C18 the code keeps: the snapshot after notify(), and the
\* repeated call
C18_SnapshotAfterNotify ==
    [][last'.op = "notify"
          => /\ previousState' = state'
             /\ ~HasStateChanged(state', previousState')
             /\ last.op = "notify" => (~last'.changed /\ log' = <<>>)]_vars

\* Only the first notify() of a store that has accepted no setState finds
\* a change
C18_OnlyBeforeFirstAccept ==
    (last.op = "notify" /\ last.changed) => state = InitialState

-----------------------------------------------------------------------------
(* addToQueue and the queued run behind the current track *)

\* The 1-based place where `after` holds an entry that `items` lacks
PlaceOfNew(items, after) ==
    LET differ == {i \in DOMAIN items : Fields(after[i]) # Fields(items[i])}
    IN IF differ = {} THEN Len(after)
       ELSE CHOOSE i \in differ : \A j \in differ : i <= j

\* C19: addToQueue(track) puts the new entry where every entry strictly
\* between the current track and the new entry has queued = true.
C19_QueuedRun ==
    [][LET items == state.songList.items
           after == state'.songList.items
           k == IndexOf(FileKeys(items), state.currentSongId)
       IN (last'.op = "addToQueue" /\ Distinct(FileKeys(items)) /\ k >= 0)
             => /\ Len(after) = Len(items) + 1
                /\ PlaceOfNew(items, after) > k + 1
                /\ \A i \in (k + 2)..(PlaceOfNew(items, after) - 1) : after[i].queued]_vars

\* What the code keeps: the new entry is queued, lies behind the current
\* track, and no queued entry lies behind the new one
C19_BehindLastQueued ==
    [][LET items == state.songList.items
           after == state'.songList.items
           k == IndexOf(FileKeys(items), state.currentSongId)
           p == PlaceOfNew(items, after)
       IN (last'.op = "addToQueue" /\ Distinct(FileKeys(items)) /\ k >= 0)
             => /\ Len(after) = Len(items) + 1
                /\ p > k + 1
                /\ after[p].queued
                /\ after[p].FileKey = last'.call.key
                /\ \A i \in (p + 1)..Len(after) : ~after[i].queued]_vars

-----------------------------------------------------------------------------
(* advanceTrack(1) over a queue that holds a file key twice *)

\* The 1-based place of the current song object in songList, 0 when absent
PositionIn(st) ==
    LET at == {i \in DOMAIN st.songList.items :
                  st.songList.items[i].oid = st.currentSong.oid}
    IN IF st.currentSong.oid = 0 \/ at = {} THEN 0
       ELSE CHOOSE i \in at : \A j \in at : i <= j

\* C20: every advanceTrack(1), also over a queue that holds a file key more
\* than once, either moves the playback position strictly forward or finds
\* it on the last entry and changes nothing; hence the position never goes
\* back and rests on the last entry after at most Len(songList) calls.
C20_AdvanceForward ==
    [][(/\ last'.op = "advanceTrack"
        /\ last'.call.direction = 1
        /\ PositionIn(state) > 0)
          => \/ PositionIn(state') > PositionIn(state)
             \/ /\ PositionIn(state) = Len(state.songList.items)
                /\ state' = state]_vars

\* The same with pairwise distinct file keys, where it holds
C20_AdvanceForwardDistinct ==
    [][(/\ last'.op = "advanceTrack"
        /\ last'.call.direction = 1
        /\ PositionIn(state) > 0
        /\ Distinct(FileKeys(state.songList.items)))
          => \/ PositionIn(state') > PositionIn(state)
             \/ /\ PositionIn(state) = Len(state.songList.items)
                /\ state' = state]_vars

\* The weaker half of C20 on its own: advanceTrack(1) never lowers the
\* position
C20_NeverBack ==
    [][(/\ last'.op = "advanceTrack"
        /\ last'.call.direction = 1
        /\ PositionIn(state) > 0)
          => PositionIn(state') >= PositionIn(state)]_vars

-----------------------------------------------------------------------------
(* Loads answering, failing and overlapping (SpecLoad, SpecLoadFair) *)

\* getArtistDetail(3).related.records: tracks that name their artist
ArtistId == JSNum(3)
ArtistRecords == <<[Track(0, 9, "r", FALSE, FALSE) EXCEPT !.artistFk = 3]>>

\* getPlaylistDetail("p").related.records
PlaylistRecords == <<Track(0, 6, "a", FALSE, FALSE)>>

\* loadArtist(id) / loadPlaylist(key) after their request answered
LoadDetailDone(w, view, id, records) ==
    LET n == Len(records)
        shown == Arr(NewRef(w, n + 1), MatchAll(w, records))
    IN Bind(SetState(Allocated(w, n + 1),
                     [view |-> view, type |-> "detail", detailId |-> id,
                      page |-> JSNum(0), count |-> 0, displayedTracks |-> shown]),
            LAMBDA w1 : LoadBanner(w1))

\* The operations of the store that load a view, by the name they wait under
LoadOps ==
    {"loadAlbum", "loadArtist", "loadGenre", "loadPlaylist",
     "library", "artists", "albums", "genres", "playlists",
     "getDashboard", "getPlaylistGrid"}

IsLoad(p) ==
    /\ p.op \in LoadOps
    /\ p.op = "getPlaylistGrid" => p.arg = LoadDashOp.arg

\* The awaited request answered: the function runs on from its await
LoadDone(w, p) ==
    CASE p.op = "loadAlbum" ->
            IF p.arg = AlbumId THEN LoadAlbumDone(w, p.arg, AlbumRecords) ELSE w
      [] p.op = "loadArtist" -> LoadDetailDone(w, "artist", p.arg, ArtistRecords)
      [] p.op = "loadPlaylist" -> LoadDetailDone(w, "playlist", p.arg, PlaylistRecords)
      [] p.op = "loadGenre" -> LoadGenreDone(w, p.arg.genre, p.arg.page, GenreRecords)
      [] p.op = "library" -> LoadLibraryDone(w, p.arg, GenreRecords)
      [] p.op = "getDashboard" -> Await(w, [LoadDashOp EXCEPT !.lists = serverLists])
      [] p.op = "getPlaylistGrid" -> LoadDashDone(w, p.lists)
      [] OTHER -> LoadGridDone(w, p.op, p.arg, GridRecords)

\* A variant that catches the failure and shows an empty list instead
LoadFailed_ShowsEmpty(w, p) ==
    SetState(Allocated(Resumed(w, p), 1), [displayedTracks |-> Arr(NewRef(w, 1), <<>>)])

\* The awaited request failed: the await throws, nothing catches it, the
\* function ends there with its promise rejected
LoadFailed(w, p) == Resumed(w, p)

LoadDid(name, w, p) == Did(name, w) @@ [request |-> p]

\* A load's request is answered
LoadReplied ==
    \E p \in BagToSet(pending) :
        /\ IsLoad(p)
        /\ \E w \in {LoadDone(Resumed(Begin, p), p)} :
              /\ Commit(Quiet(w))
              /\ last' = LoadDid("loaded", w, p)
        /\ UNCHANGED <<subscriptions, serverLists, searchInput, player, cache>>

\* A load's request fails
LoadRejected ==
    \E p \in BagToSet(pending) :
        /\ IsLoad(p)
        /\ \E w \in {LoadFailed(Begin, p)} :
              /\ Commit(Quiet(w))
              /\ last' = LoadDid("rejected", w, p)
        /\ UNCHANGED <<subscriptions, serverLists, searchInput, player, cache>>

\* loadBanner(): getArtistDetail answered, with the artist's row or without
BannerReplied ==
    \E p \in BagToSet(pending), found \in BOOLEAN :
        /\ p.op = "loadBanner"
        /\ \E w \in {LoadBannerDone(Resumed(Begin, p), p.arg.artistFk, p.arg.titleName, found)} :
              /\ Commit(Quiet(w))
              /\ last' = LoadDid("banner", w, p)
        /\ UNCHANGED <<subscriptions, serverLists, searchInput, player, cache>>

LoadHashes ==
    {<<"#", "artists">>, <<"#", "album", "/", "5">>, <<"#", "artist", "/", "3">>,
     <<"#", "genre", "/", "rock", "/", "-", "1">>}

InitLoad == InitFrom(Started(<<>>), InitialLists)

NextLoad ==
    \/ \E h \in LoadHashes : NavigateTo(h)
    \/ ClickView("playlists")
    \/ NavDeliver
    \/ FireTimer
    \/ LoadReplied
    \/ LoadRejected
    \/ BannerReplied

SpecLoad == InitLoad /\ [][NextLoad]_vars

\* Every queued event is delivered, every timer fires, every request is
\* answered or fails
SpecLoadFair ==
    /\ SpecLoad
    /\ WF_vars(NavDeliver)
    /\ WF_vars(FireTimer)
    /\ WF_vars(LoadReplied \/ LoadRejected)
    /\ WF_vars(BannerReplied)

\* C21: when the Data Access call of a load fails, the load rejects there:
\* the state and the last-notified snapshot are unchanged, no setState is
\* accepted and no subscriber called, nothing is dispatched or written, and
\* the request is not issued again (the other requests stay in flight).
C21_FailedLoad ==
    [][last'.op = "rejected"
          => /\ state' = state
             /\ previousState' = previousState
             /\ last'.accepted = 0
             /\ last'.urlCalls = 0
             /\ last'.dispatched = <<>>
             /\ hash' = hash /\ timers' = timers /\ hashEvents' = hashEvents
             /\ pending' = pending (-) SetToBag({last'.request})]_vars

C21_Witness ==
    /\ last.op = "rejected"
    /\ last.request.op = "loadGenre"
    /\ pending # EmptyBag

IDs(items) == [i \in DOMAIN items |-> items[i].ID]

\* The loads that show a view (loadDash shows none), when they succeed
IsViewLoad(p) ==
    /\ IsLoad(p)
    /\ p.op \notin {"getDashboard", "getPlaylistGrid"}
    /\ p.op = "loadAlbum" => p.arg = AlbumId

\* What the response to request p holds, and the view asked for
ResultOf(p) ==
    CASE p.op = "loadAlbum" ->
            [key |-> "displayedTracks", view |-> "album", detailId |-> p.arg, page |-> JSNum(0),
             count |-> 0, records |-> AlbumRecords]
      [] p.op = "loadArtist" ->
            [key |-> "displayedTracks", view |-> "artist", detailId |-> p.arg, page |-> JSNum(0),
             count |-> 0, records |-> ArtistRecords]
      [] p.op = "loadPlaylist" ->
            [key |-> "displayedTracks", view |-> "playlist", detailId |-> p.arg, page |-> JSNum(0),
             count |-> 0, records |-> PlaylistRecords]
      [] p.op = "loadGenre" ->
            [key |-> "displayedTracks", view |-> "genre", detailId |-> p.arg.genre,
             page |-> p.arg.page,
             count |-> Len(GenreRecords), records |-> GenreRecords]
      [] p.op = "library" ->
            [key |-> "displayedTracks", view |-> "library", detailId |-> JSUndef,
             page |-> p.arg,
             count |-> Len(GenreRecords), records |-> GenreRecords]
      [] OTHER ->
            [key |-> "displayedGrid", view |-> p.op,
             detailId |-> JSUndef,
             page |-> IF p.op = "playlists" THEN JSNum(0) ELSE p.arg,
             count |-> Len(GridRecords), records |-> GridRecords]

Shows(st, r) ==
    /\ st.view = r.view
    /\ st.detailId = r.detailId
    /\ st.page = r.page
    /\ st.count = r.count
    /\ IDs(st[r.key].items) = IDs(r.records)

\* C22: with two loads in flight neither cancels the other; the load whose
\* response resolves commits view, detailId, page, count and content all
\* from its own request and response, whatever was issued or shown before,
\* and the other load stays in flight; so the state after the last response
\* is that of the load that resolved last.
C22_LastResponseWins ==
    [][last'.op = "loaded" /\ IsViewLoad(last'.request)
          => /\ Shows(state', ResultOf(last'.request))
             /\ (pending (-) SetToBag({last'.request})) \sqsubseteq pending']_vars

\* A load committed while another load of a different view is still in flight
C22_Witness ==
    /\ last.op = "loaded"
    /\ IsViewLoad(last.request)
    /\ \E q \in BagToSet(pending) : IsViewLoad(q) /\ q.op # last.request.op

\* The loads that end by calling loadBanner
CallsLoadBanner(p) ==
    /\ IsViewLoad(p)
    /\ p.op \in {"loadAlbum", "loadArtist", "loadPlaylist", "loadGenre", "library"}

\* C23: when a load's banner load runs and no displayed track names an
\* artist, the banner is cleared (absent from the state afterwards) and no
\* artist fetch is issued.
C23_BannerCleared ==
    [][(/\ last'.op = "loaded"
        /\ CallsLoadBanner(last'.request)
        /\ FirstArtistFk(state'.displayedTracks.items) = 0)
          => /\ state'.banner \in {UndefBanner, NullBanner}
             /\ \A q \in BagToSet(pending') : q.op = "loadBanner" => BagIn(q, pending)]_vars

(* The second half of C23 on its own: no artist fetch is issued. *)
C23_NoFetchIssued ==
    [][(/\ last'.op = "loaded"
        /\ CallsLoadBanner(last'.request)
        /\ FirstArtistFk(state'.displayedTracks.items) = 0)
          => \A q \in BagToSet(pending') : q.op = "loadBanner" => BagIn(q, pending)]_vars

-----------------------------------------------------------------------------
(* parseURL on the hashes an address bar can carry (SpecParse) *)

FirstSegments ==
    {<<"album">>, <<"artists">>, <<"genre">>, <<"search">>, <<"dash">>,
     <<"settings">>, <<"x", "y">>, <<>>}
SecondSegments == {<<"5">>, <<"r", "o", "c", "k">>, <<"-", "1">>, <<>>}
ThirdSegments ==
    {<<"2">>, <<"1", "2">>, <<"0">>, <<"-", "1">>, <<"x">>, <<"2", "x">>, <<>>}

SegmentLists ==
    {<<a>> : a \in FirstSegments}
        \cup {<<a, b>> : a \in FirstSegments, b \in SecondSegments}
        \cup {<<a, b, c>> : a \in FirstSegments, b \in SecondSegments, c \in ThirdSegments}

\* "#" followed by the segments with "/" between them
HashOfSegments(segs) == <<"#">> \o Join(segs, "/")

ParseHashes == {<<>>} \cup {HashOfSegments(segs) : segs \in SegmentLists}

\* The started application at one of these hashes
InitParse ==
    \E h \in ParseHashes :
        InitFrom([Started(<<>>) EXCEPT !.pending = EmptyBag, !.hash = h], InitialLists)

\* parseURL()
DoParseURL ==
    /\ last.op = "init"
    /\ Commit(Begin)
    /\ last' = [op |-> "parseURL", url |-> ParseURL(hash)]
    /\ UNCHANGED <<subscriptions, serverLists, searchInput, player, cache>>

NextParse == DoParseURL

SpecParse == InitParse /\ [][NextParse]_vars

IsInteger(v) == v.t = "number"

\* What C24 says of the URL parsed from the hash made of segments `segs`
ParsedAsClaimed(segs, url) ==
    /\ url.view \in ValidViews
    /\ url.view = IF Len(segs[1]) = 1 /\ segs[1][1] \in ValidViews
                  THEN segs[1][1] ELSE "dash"
    /\ url.detailId = IF Len(segs) >= 2 THEN JSStr(segs[2]) ELSE JSUndef
    /\ Len(segs) >= 3 /\ segs[3] # <<>> => IsInteger(url.page)

\* C24: parseURL always returns a view of the allow-list, dash for an empty
\* hash or an unlisted first segment, the second segment verbatim as
\* detailId, and the third, when present, as an integer page.
C24_ParseURL ==
    last.op = "parseURL"
        => /\ hash = <<>> => last.url.view = "dash"
           /\ \A segs \in SegmentLists :
                 hash = HashOfSegments(segs) => ParsedAsClaimed(segs, last.url)

(* Supporting check: the view and detailId parts of C24 hold. *)
C24_ViewAndDetailId ==
    last.op = "parseURL"
        => /\ hash = <<>> => last.url.view = "dash"
           /\ \A segs \in SegmentLists :
                 hash = HashOfSegments(segs)
                    => ParsedAsClaimed(segs, [last.url EXCEPT !.page = JSNum(1)])

-----------------------------------------------------------------------------
(* The two guards of the URL controller *)

\* C25: handleURLChange invoked while isUpdatingFromState is true, and
\* updateURL invoked while isUpdatingFromURL is true, return at once: no
\* load or setState is dispatched, the URL is not written, neither flag
\* changes and no deferred reset is scheduled.
C25_GuardsReturn ==
    [][/\ (last'.op = "hashchange" /\ isUpdatingFromState)
            => /\ state' = state /\ previousState' = previousState
               /\ pending' = pending
               /\ last'.dispatched = <<>> /\ last'.accepted = 0 /\ last'.urlCalls = 0
               /\ hash' = hash /\ timers' = timers
               /\ isUpdatingFromURL' = isUpdatingFromURL
               /\ isUpdatingFromState'
       /\ (last'.op \notin {"hashchange", "timer"} /\ last'.urlCalls > 0 /\ isUpdatingFromURL)
            => /\ hash' = hash /\ hashEvents' = hashEvents /\ timers' = timers
               /\ isUpdatingFromURL'
               /\ isUpdatingFromState' = isUpdatingFromState]_vars

\* A hashchange event was delivered while isUpdatingFromState was set (the
\* handler never sets that flag itself)
C25_Witness ==
    /\ last.op = "hashchange"
    /\ last.origin = "state"
    /\ isUpdatingFromState

\* A load answered and notified the App's subscriber while
\* isUpdatingFromURL was set, the state's URL differing from the hash
C25_UpdateURLGuarded ==
    /\ last.op = "loaded"
    /\ last.urlCalls > 0
    /\ isUpdatingFromURL
    /\ HashOfState(state) # hash

-----------------------------------------------------------------------------
(* The guard flags across a turn and the next tick (SpecGuard, SpecGuardFair) *)

GuardHashes ==
    {<<"#", "dash">>, <<"#", "search">>, <<"#", "settings">>,
     <<"#", "album", "/", "5">>, <<"#", "artists">>}

InitGuard == InitFrom(Loaded, InitialLists)

NextGuard ==
    \/ \E h \in GuardHashes : NavigateTo(h)
    \/ \E view \in {"dash", "settings"} : ClickView(view)
    \/ NavDeliver
    \/ FireTimer
    \/ LoadReplied

SpecGuard == InitGuard /\ [][NextGuard]_vars

\* Every queued event is delivered, every timer fires, every load answers
SpecGuardFair ==
    /\ SpecGuard
    /\ WF_vars(NavDeliver)
    /\ WF_vars(FireTimer)
    /\ WF_vars(LoadReplied)

LastOf(seq) == seq[Len(seq)]

\* C26: a flag set by handleURLChange or updateURL is still set when the
\* turn ends, whatever setState, notify and subscriber calls the turn made,
\* and only the zero-delay callback scheduled with it resets it; a
\* synchronous setState made during handleURLChange never writes the URL.
C26_FlagHeldThroughTurn ==
    [][/\ (last'.op = "hashchange" /\ ~isUpdatingFromState)
            => /\ isUpdatingFromURL'
               /\ hash' = hash
               /\ hashEvents' = Tail(hashEvents)
               /\ isUpdatingFromState' = isUpdatingFromState
               /\ timers' = Append(timers, "resetURL")
       /\ (last'.op \notin {"hashchange", "timer"} /\ last'.urlCalls > 0 /\ ~isUpdatingFromURL)
            => /\ isUpdatingFromState'
               /\ timers' # <<>> /\ LastOf(timers') = "resetState"
       /\ (isUpdatingFromURL /\ ~isUpdatingFromURL')
            => last'.op = "timer" /\ Head(timers) = "resetURL"
       /\ (isUpdatingFromState /\ ~isUpdatingFromState')
            => last'.op = "timer" /\ Head(timers) = "resetState"
       /\ last'.op = "timer"
            => /\ timers' = Tail(timers)
               /\ Head(timers) = "resetURL" => ~isUpdatingFromURL'
               /\ Head(timers) = "resetState" => ~isUpdatingFromState']_vars

\* handleURLChange ran the default branch of handleViewChange: the setState
\* was accepted, the App's subscriber called updateURL, the state's URL
\* differs from the hash, and the hash was left alone
C26_Witness ==
    /\ last.op = "hashchange"
    /\ last.dispatched = <<"setState">>
    /\ last.accepted > 0
    /\ last.urlCalls > 0
    /\ isUpdatingFromURL
    /\ HashOfState(state) # hash

------------------------------------------------------------------------

-----------------------------------------------------------------------------
(* Termination of the URL / state cycle (SpecOnce, SpecOnceFair) *)

OnceHashes ==
    LoadHashes \cup {<<"#", "search">>, <<"#", "artists", "/", "3">>,
                     <<"#", "genre", "/", "rock", "/", "2">>}

\* The application starting up, its dashboard still loading or just loaded
InitOnce ==
    \/ InitFrom(Started(<<>>), InitialLists)
    \/ InitFrom(Loaded, InitialLists)

\* The one navigation: a hash change or a click on a view link
NavigateOnce == last.inputs = 0 /\ \E h \in OnceHashes : NavigateTo(h)
ClickOnce == last.inputs = 0 /\ \E view \in {"playlists", "dash", "settings"} : ClickView(view)

NextOnce ==
    \/ NavigateOnce
    \/ ClickOnce
    \/ NavDeliver
    \/ FireTimer
    \/ LoadReplied
    \/ BannerReplied

SpecOnce == InitOnce /\ [][NextOnce]_vars

\* Every queued event is delivered, every timer fires, every fetch completes
SpecOnceFair ==
    /\ SpecOnce
    /\ WF_vars(NavDeliver)
    /\ WF_vars(FireTimer)
    /\ WF_vars(LoadReplied)
    /\ WF_vars(BannerReplied)

\* Nothing is left to run: no hashchange event queued, no timer set, no
\* request in flight
Quiescent == hashEvents = <<>> /\ timers = <<>> /\ pending = EmptyBag

\* C27: after one navigation whose fetches all complete, the
\* cycle state change -> updateURL -> hashchange -> handleURLChange -> load
\* ends: the system becomes quiescent and stays so, in whatever order the
\* hashchange events, the deferred resets and the answers are delivered.
C27_Quiescence == <>[]Quiescent

\* A click loaded the playlists, the state change wrote "#playlists", the
\* hashchange it caused was delivered, and everything has come to rest
C27_Witness ==
    /\ Quiescent
    /\ last.inputs = 1
    /\ state.view = "playlists"
    /\ hash = <<"#", "playlists">>

-----------------------------------------------------------------------------
(* detailId and page across the views *)

DetailViews == {"album", "artist", "genre", "playlist"}

\* C28: in every reachable state whose view is not a detail view, detailId
\* is absent, also after leaving a detail view for dash, search or settings.
C28_NoDetailIdOutsideDetail ==
    state.view \notin DetailViews => state.detailId = JSUndef

\* C29: in every reachable state, page is an integer >= 0, whatever third
\* segment the URL carries.
C29_PageNonNegative ==
    state.page.t = "number" /\ state.page.n >= 0

-----------------------------------------------------------------------------
(* state.previous while the settings view is shown *)

\* C30: for as long as the view stays settings, state.previous keeps the
\* view and detail id the settings view was entered from, whatever other
\* setState calls are accepted meanwhile.
C30_PreviousKeptInSettings ==
    [][(state.view = "settings" /\ state'.view = "settings")
          => /\ state'.previous.view = state.previous.view
             /\ state'.previous.id = state.previous.id]_vars

-----------------------------------------------------------------------------
(* The Data Access functions and getDashOnce's cache (SpecDash) *)

MaxCalls == 3         \* most calls of one Data Access function

LibraryURL == "/request/ID/DESC/1/music"

\* A variant that fetches on every call and caches the newest promise
GetDashOnce_Refetches(c, url, id) ==
    [cache |-> (url :> Promise(id, "pending")) @@ c, promise |-> id, fetched |-> TRUE]

\* getDashOnce(url): fetch and cache the promise unless the Map has the URL;
\* return the cached promise.  `id` names the promise a fetch would create
GetDashOnce(c, url, id) ==
    IF url \in DOMAIN c
    THEN [cache |-> c, promise |-> c[url].promise, fetched |-> FALSE]
    ELSE [cache |-> c @@ (url :> Promise(id, "pending")), promise |-> id, fetched |-> TRUE]

\* A network request in flight, and a caller suspended on a promise
Fetch(url, id) == PendingOp("fetch", id, <<url>>)
Waiting(id) == PendingOp("getDashboard", id, <<>>)

NoFetches == [url \in {DashURL, LibraryURL} |-> 0]
TotalFetches == last.fetched[DashURL] + last.fetched[LibraryURL]

InitDash ==
    /\ state = InitialState
    /\ previousState = EmptySnapshot
    /\ listeners = <<>>
    /\ log = <<>>
    /\ subscriptions = [order |-> <<>>, cancelled |-> {}]
    /\ hash = <<>>
    /\ isUpdatingFromURL = FALSE
    /\ isUpdatingFromState = FALSE
    /\ timers = <<>>
    /\ hashEvents = <<>>
    /\ pending = EmptyBag
    /\ serverLists = <<>>
    /\ searchInput = ""
    /\ player = InitialPlayer
    /\ cache = NoPromises
    /\ last = [op |-> "init", calls |-> 0, fetched |-> NoFetches, promises |-> {},
               outcomes |-> {}, joined |-> 0, late |-> 0]

DashFrame ==
    UNCHANGED <<state, previousState, listeners, log, subscriptions, hash,
                isUpdatingFromURL, isUpdatingFromState, timers, hashEvents,
                serverLists, searchInput, player>>

\* getDashboard(): a caller awaits the promise getDashOnce returns; a promise
\* settled already resumes it at once with that promise's outcome
CallGetDashboard ==
    /\ last.calls < MaxCalls
    /\ \E r \in {GetDashOnce(cache, DashURL, TotalFetches + 1)} :
       LET settled == r.cache[DashURL].settled
           waits == settled = "pending"
       IN /\ cache' = r.cache
          /\ pending' = pending
                 (+) (IF r.fetched THEN SetToBag({Fetch(DashURL, r.promise)}) ELSE EmptyBag)
                 (+) (IF waits THEN SetToBag({Waiting(r.promise)}) ELSE EmptyBag)
          /\ last' = [last EXCEPT
                 !.op = "getDashboard",
                 !.calls = @ + 1,
                 !.fetched[DashURL] = IF r.fetched THEN @ + 1 ELSE @,
                 !.promises = @ \cup {r.promise},
                 !.outcomes = IF waits THEN @ ELSE @ \cup {settled},
                 !.joined = IF ~r.fetched /\ waits THEN @ + 1 ELSE @,
                 !.late = IF ~r.fetched /\ ~waits THEN @ + 1 ELSE @]
    /\ DashFrame

\* getLibrary(page): fetches on every call
CallGetLibrary ==
    /\ last.fetched[LibraryURL] < MaxCalls
    /\ pending' = pending (+) SetToBag({Fetch(LibraryURL, TotalFetches + 1)})
    /\ last' = [last EXCEPT !.op = "getLibrary", !.fetched[LibraryURL] = @ + 1]
    /\ UNCHANGED cache
    /\ DashFrame

\* A request is answered or fails: its promise settles and every caller
\* suspended on that promise resumes with the outcome
FetchSettled ==
    \E f \in BagToSet(pending), outcome \in {"fulfilled", "rejected"} :
        /\ f.op = "fetch"
        /\ cache' = [url \in DOMAIN cache |->
                        IF cache[url].promise = f.arg
                        THEN Promise(f.arg, outcome) ELSE cache[url]]
        /\ pending' = (pending (-) SetToBag({f}))
                          (-) (IF BagIn(Waiting(f.arg), pending)
                               THEN (Waiting(f.arg) :> CopiesIn(Waiting(f.arg), pending))
                               ELSE EmptyBag)
        /\ last' = [last EXCEPT
               !.op = "settled",
               !.outcomes = IF BagIn(Waiting(f.arg), pending)
                            THEN @ \cup {outcome} ELSE @]
        /\ DashFrame

NextDash ==
    \/ CallGetDashboard
    \/ CallGetLibrary
    \/ FetchSettled

SpecDash == InitDash /\ [][NextDash]_vars

\* C31: getDashboard issues at most one request for its URL: every call,
\* made while the request is in flight or after it completed either way, is
\* handed the same promise and so the same outcome; getLibrary fetches on
\* every call.
C31_DashboardOnce ==
    [][/\ last'.fetched[DashURL] <= 1
       /\ Cardinality(last'.promises) <= 1
       /\ Cardinality(last'.outcomes) <= 1
       /\ last'.op = "getLibrary"
             => last'.fetched[LibraryURL] = last.fetched[LibraryURL] + 1]_vars

\* getDashboard was called while its request was in flight and again after
\* it completed, the callers were resumed, and getLibrary was called twice
C31_Witness ==
    /\ last.joined > 0
    /\ last.late > 0
    /\ last.outcomes # {}
    /\ last.fetched[LibraryURL] >= 2

-----------------------------------------------------------------------------
(* Playlist updates overlapping (SpecLists) *)

MaxClicks == 4        \* most clicks on the playlist menu

\* Album 5 shown with the dashboard's playlists loaded, nothing in flight
ListsShown ==
    [LoadAlbumDone(Loaded, AlbumId, AlbumRecords) EXCEPT
        !.hash = <<"#", "album", "/", "5">>, !.timers = <<>>, !.hashEvents = <<>>,
        !.fromURL = FALSE, !.fromState = FALSE, !.urlCalls = 0, !.accepts = 0]

InitLists == InitFrom(ListsShown, InitialLists)

\* handleClick, [data-list-id] branch
ListIdClicked(id) ==
    /\ last.inputs < MaxClicks
    /\ FindByID(state.displayedTracks.items, id).oid # 0
    /\ \E w \in {SetState(Begin, [menuTrack |-> FindByID(state.displayedTracks.items, id),
                                  listOpen |-> Not(state.listOpen)])} :
          /\ Commit(Quiet(w))
          /\ last' = Input(Did("clickList", w))
    /\ UNCHANGED <<subscriptions, serverLists, searchInput, player, cache>>

\* handleClick, [data-add-id] branch: updateList(menuList) up to its await;
\* the server applies the save
AddIdClicked(i) ==
    /\ last.inputs < MaxClicks
    /\ state.listOpen = "true"
    /\ state.menuTrack.oid # 0
    /\ i \in DOMAIN state.playlistLib.items
    /\ \E updated \in {Toggled(state.playlistLib.items[i], state.menuTrack.FileKey)} :
          /\ serverLists' = Saved(serverLists, updated)
          /\ \E w \in {Await(Begin, SaveOp(TRUE))} :
                /\ Commit(Quiet(w))
                /\ last' = Input(Did("clickAdd", w))
                              @@ [fileKey |-> state.menuTrack.FileKey,
                                  given |-> state.playlistLib.items[i],
                                  saved |-> updated]
    /\ UNCHANGED <<subscriptions, searchInput, player, cache>>

NextLists ==
    \/ FireTimer
    \/ \E id \in {1, 2, 3} : ListIdClicked(id)
    \/ \E i \in 1..Len(InitialLists) : AddIdClicked(i)
    \/ PlaylistSaved
    \/ \E lists \in ListsOf(BagToSet(pending)) : RematchReplied(lists)

SpecLists == InitLists /\ [][NextLists]_vars

\* `related` of the persisted playlist with key `listKey`, as a set
PersistedKeys(lists, listKey) ==
    UNION {Members(lists[i].related) : i \in {j \in DOMAIN lists : lists[j].listKey = listKey}}

ToggledIn(keys, key) == IF key \in keys THEN keys \ {key} ELSE keys \cup {key}

\* The keys earlier updates toggled in the persisted playlist that the
\* playlist of playlistLib handed to updateList does not show yet
Unrefreshed(given) ==
    LET persisted == PersistedKeys(serverLists, given.listKey)
        shown == Members(given.related)
    IN (persisted \ shown) \cup (shown \ persisted)

\* C32: an updateList issued for another menu track before the rematch of an
\* earlier updateList on the same playlist has refreshed playlistLib does
\* not lose the earlier toggle: what is persisted after it is what was
\* persisted before it with the new track's key toggled.
C32_BothTogglesKept ==
    [][(/\ last'.op = "clickAdd"
        /\ Unrefreshed(last'.given) # {}
        /\ last'.fileKey \notin Unrefreshed(last'.given))
          => PersistedKeys(serverLists', last'.saved.listKey)
                = ToggledIn(PersistedKeys(serverLists, last'.saved.listKey), last'.fileKey)]_vars

(* Supporting property: an updateList handed a playlist that shows what is
   persisted toggles exactly the menu track's key in it. *)
C32_RefreshedToggles ==
    [][(last'.op = "clickAdd" /\ Unrefreshed(last'.given) = {})
          => PersistedKeys(serverLists', last'.saved.listKey)
                = ToggledIn(PersistedKeys(serverLists, last'.saved.listKey), last'.fileKey)]_vars

-----------------------------------------------------------------------------
(* The banner and the view displayed *)

\* C33: whenever no operation is in flight, a banner in the state was built
\* for the view and detailId displayed, and its labelName and titleName
\* describe the same entity.
C33_BannerOfDisplayedView ==
    (pending = EmptyBag /\ state.banner.oid # 0)
        => /\ state.banner.titleName = NameOf(state.view, state.detailId)
           /\ state.banner.labelName = state.banner.titleName.view

(* Supporting property, violated as well: labelName is the view of the
   entity titleName names, at any time. *)
C33_LabelOfTitle ==
    state.banner.oid # 0 => state.banner.labelName = state.banner.titleName.view

-----------------------------------------------------------------------------
(* The two guard flags together *)

\* C34: isUpdatingFromURL and isUpdatingFromState are never both true.
C34_NotBothFlags == ~(isUpdatingFromURL /\ isUpdatingFromState)

\* updateURL was called during a handleURLChange that had set
\* isUpdatingFromURL, for a state whose URL is not the hash
C34_Witness ==
    /\ last.op = "hashchange"
    /\ last.urlCalls > 0
    /\ isUpdatingFromURL
    /\ ~isUpdatingFromState
    /\ HashOfState(state) # hash
    /\ timers # <<>>

\* A hashchange event was consumed while isUpdatingFromState was set
C34_WitnessFromState ==
    /\ last.op = "hashchange"
    /\ isUpdatingFromState
    /\ ~isUpdatingFromURL
    /\ last.dispatched = <<>>

ResetPending(timer) == \E i \in DOMAIN timers : timers[i] = timer

\* C35: a flag set by an updateURL (handleURLChange) call stays true until
\* that call's own deferred reset has run: while the reset of any call is
\* still to run, the flag is set.
C35_HeldUntilOwnReset ==
    /\ ResetPending("resetState") => isUpdatingFromState
    /\ ResetPending("resetURL") => isUpdatingFromURL

(* Supporting property, violated as well: the reset of an earlier updateURL
   call does not clear isUpdatingFromState while a hashchange event a later
   call caused is undelivered and that call's reset is still to run. *)
C35_LaterEventGuarded ==
    [][(/\ last'.op = "timer"
        /\ Head(timers) = "resetState"
        /\ ResetPending("resetState")'
        /\ hashEvents # <<>>
        /\ hashEvents[Len(hashEvents)].origin = "state"
        /\ last.op \notin {"timer", "init"}
        /\ last.urlCalls > 0)
          => isUpdatingFromState']_vars

-----------------------------------------------------------------------------
(* A list view's page through the URL *)

PagedListViews == {"library", "artists", "albums", "genres"}

\* C36: for a list-view state with no detailId and page p > 1, the hash
\* updateURL writes parses back to the same view, no detailId and page p.
C36_ListPageRoundTrip ==
    (/\ last.op = "updateURL"
     /\ state.view \in PagedListViews
     /\ state.detailId = JSUndef
     /\ state.page.n > 1)
        => /\ last.url.view = state.view
           /\ last.url.detailId = JSUndef
           /\ last.url.page = state.page

-----------------------------------------------------------------------------
(* The views the store holds and the views parseURL recognises *)

\* C37: handling the hash that updateURL wrote for the current state never
\* changes the state's view, whether or not the guard flag is still set
\* when the hashchange event is delivered.
C37_OwnHashKeepsView ==
    [][(/\ last'.op = "hashchange"
        /\ Head(hashEvents).origin = "state"
        /\ Head(hashEvents).hash = hash
        /\ HashOfState(state) = hash)
          => state'.view = state.view]_vars

(* Supporting property: it holds for the views of the allow-list. *)
C37_ListedViewKept ==
    [][(/\ last'.op = "hashchange"
        /\ Head(hashEvents).origin = "state"
        /\ Head(hashEvents).hash = hash
        /\ HashOfState(state) = hash
        /\ state.view \in ValidViews)
          => state'.view = state.view]_vars

-----------------------------------------------------------------------------
(* setState called by a listener during a notification (SpecReentrant) *)

ReentrantListeners == {"L1", "R"}

NextReentrant ==
    \/ \E l \in ReentrantListeners : DoSubscribe(l)
    \/ \E iv \in 0..2, idt \in 0..2, isl \in 0..3 : DoSetState(iv, idt, isl)

SpecReentrant == Init /\ [][NextReentrant]_vars

CallsOf(l) == SelectSeq(log, LAMBDA e : e.l = l)

\* C38: when a listener calls setState during a notification, every
\* listener is still invoked exactly once per accepted state and never twice
\* with the same state, sees the accepted states in order, the final state
\* last, and the last-notified snapshot equals the final state when the
\* outermost setState returns.
C38_ReentrantNotify ==
    (last.op = "setState" /\ last.accepted > 0)
        => /\ \A l \in Range(subscriptions.order) :
                 /\ Len(CallsOf(l)) = last.accepted
                 /\ \A i, j \in DOMAIN CallsOf(l) :
                       i < j => CallsOf(l)[i].st # CallsOf(l)[j].st
                 /\ CallsOf(l)[Len(CallsOf(l))].st = state
           /\ previousState = state

(* Supporting property: the snapshot part holds, and so does the whole of
   C38 while no listener's setState was accepted. *)
C38_SnapshotIsFinal ==
    (last.op = "setState" /\ last.accepted > 0)
        => /\ previousState = state
           /\ last.accepted = 1 => \A l \in Range(subscriptions.order) :
                                      Len(CallsOf(l)) = 1 /\ CallsOf(l)[1].st = state

-----------------------------------------------------------------------------
(* What addToQueue leaves alone (SpecQueue) *)

\* An object or an array with the identities left out, so that values of two
\* states compare
Plain(st, k) ==
    IF k \in ObjectArrayKeys THEN [i \in DOMAIN st[k].items |-> Fields(st[k].items[i])]
    ELSE IF k \in PlainArrayKeys THEN st[k].items
    ELSE IF k \in ObjectKeys THEN [st[k] EXCEPT !.oid = 0]
    ELSE st[k]

Oids(items) == {items[i].oid : i \in DOMAIN items}

\* C39: addToQueue(track) makes songList one entry longer: the entries it had,
\* in their order, and a queued copy of the track at an index greater than
\* the current track's.  currentSong, currentSongId and every other state
\* field except `previous` stay as they were, the track passed in (a row of
\* displayedTracks) is not touched, and the array songList was before, which
\* displayedTracks may still be, keeps its entries: the new songList is
\* another array and the new entry another object.
C39_AddToQueueFrame ==
    [][LET items == state.songList.items
           after == state'.songList.items
           k == IndexOf(FileKeys(items), state.currentSongId)
           track == CHOOSE t \in Range(state.displayedTracks.items) :
                       t.FileKey = last'.call.key
       IN (last'.op = "addToQueue")
             => /\ Len(after) = Len(items) + 1
                /\ \E at \in (k + 1)..Len(items) :
                      /\ at > k
                      /\ Plain(state', "songList")
                            = InsertAt(Plain(state, "songList"), at,
                                       Fields([track EXCEPT !.queued = TRUE]))
                /\ \A key \in DOMAIN state \ {"songList", "previous"} :
                      Plain(state', key) = Plain(state, key)
                /\ state'.songList.ref # state'.displayedTracks.ref
                /\ \A i \in DOMAIN after :
                      after[i].queued => after[i].oid \notin Oids(state'.displayedTracks.items)
                /\ Cardinality(Oids(after)) = Len(after)]_vars

\* C39 witness: the displayed album was started at its first track, so that
\* songList was the displayedTracks array itself, and one of its rows was
\* then queued: displayedTracks still has its rows, songList one more
C39_Witness ==
    /\ last.op = "addToQueue"
    /\ last.run = 1
    /\ state.currentSongId = state.displayedTracks.items[1].FileKey
    /\ Len(state.songList.items) = Len(state.displayedTracks.items) + 1
    /\ state.songList.items[2].queued
    /\ \A i \in DOMAIN state.displayedTracks.items :
          /\ ~state.displayedTracks.items[i].queued
          /\ state.displayedTracks.items[i].oid
                = state.songList.items[IF i = 1 THEN 1 ELSE i + 1].oid

-----------------------------------------------------------------------------
(* advanceTrack without a current track in songList (SpecQueue) *)

\* C40: when currentSongId is absent or the file key of no entry of songList,
\* advanceTrack(-1) changes nothing and advanceTrack(1) makes the first entry
\* of a non-empty songList the current track, songList staying as it was;
\* over an empty songList both directions change nothing.
C40_AdvanceWithoutCurrent ==
    [][LET items == state.songList.items
           d == last'.call.direction
       IN (/\ last'.op = "advanceTrack"
           /\ IndexOf(FileKeys(items), state.currentSongId) = -1)
             => IF d = 1 /\ items # <<>>
                THEN /\ last'.accepted = 1
                     /\ state'.currentSongId = items[1].FileKey
                     /\ Fields(state'.currentSong) = Fields(items[1])
                     /\ state'.currentSong = state'.songList.items[1]
                     /\ \A key \in DOMAIN state \ {"currentSong", "currentSongId", "previous"} :
                           Plain(state', key) = Plain(state, key)
                ELSE /\ last'.accepted = 0
                     /\ state' = state
                     /\ previousState' = previousState]_vars

\* C40 witness: after stop, tracks were queued into the empty queue, and
\* advanceTrack(1) has made the first of them the current track; it can only
\* have come from index -1
C40_Witness ==
    /\ last.op = "advanceTrack"
    /\ last.call.direction = 1
    /\ last.accepted = 1
    /\ Len(state.songList.items) = 2
    /\ \A i \in DOMAIN state.songList.items : state.songList.items[i].queued
    /\ state.currentSong = state.songList.items[1]

\* C40 second witness: advanceTrack(-1) over queued tracks without a current
\* track, and nothing changed
C40_WitnessBack ==
    /\ last.op = "advanceTrack"
    /\ last.call.direction = -1
    /\ last.accepted = 0
    /\ state.songList.items # <<>>
    /\ IndexOf(FileKeys(state.songList.items), state.currentSongId) = -1

====
